---- MODULE Spec2Model ----
(***************************************************************************)
(* Verification model of the summer_memory package of NagaAgent:           *)
(*   typed_memory_storage.py  TypedMemoryStorage                           *)
(*   semantic_deduplicator.py SemanticDeduplicator                         *)
(*   quintuple_graph.py       store_quintuples and the master list         *)
(*   memory_manager.py        GRAGMemoryManager                            *)
(*                                                                         *)
(* Strings are modelled as sequences of one-character strings so that the  *)
(* key, signature and similarity computations are computed, not assumed.   *)
(* Time is in seconds, importance scores are in tenths (9 means 0.9).      *)
(***************************************************************************)
EXTENDS Integers, Sequences, FiniteSets, TLC

VARIABLES
    clock,            \* time.time(), in seconds
    files,            \* contents of the four type-files (config.file_path)
    memory_indices,   \* TypedMemoryStorage.memory_indices: type -> key -> position
    quintuples_file,  \* contents of QUINTUPLES_FILE, the flat master list
    graph,            \* quintuple_graph.graph: "None" or "connected"
    graph_rels,       \* relationships merged into the graph backend
    last,             \* outcome of the last call (observation only)
    inputs,           \* every quintuple passed to store_quintuples so far (history)
    thr,              \* the threads running the fallback path: position and locals
    manager,          \* GRAGMemoryManager: enabled, auto_extract, recent_context,
                      \* extraction_cache, active_tasks
    task_manager,     \* the task manager: is_running, tasks, task_queue, workers,
                      \* on_task_completed, on_task_failed
    loop_calls,       \* coroutines scheduled on the event loop, not yet run
    memory_decision_maker,  \* MemoryDecisionMaker: enabled
    multi_modal_query_system,  \* MultiModalQuerySystem: search_history, performance_stats
    entity_disambiguator,  \* EntityDisambiguator: entities, the indexes, entities.json
    extractor,        \* IntelligentMemoryExtractor: query_history, performance_metrics
    nops              \* number of calls made so far (bounds the exploration)

vars == <<clock, files, memory_indices, quintuples_file, graph, graph_rels,
          last, inputs, thr, manager, task_manager, loop_calls,
          memory_decision_maker, multi_modal_query_system, entity_disambiguator, extractor, nops>>

----------------------------------------------------------------------------
(* Bounds of the exploration.                                              *)

MaxOps == 4           \* calls per behaviour
MaxTicks == 2         \* clock advances per behaviour
MaxStores == 2        \* store_quintuples calls per behaviour
MaxBatch == 2         \* quintuples per store_quintuples call
MaxTasks == 3         \* add_conversation_memory calls per behaviour
MaxWorkers == 2       \* size of the task manager's worker pool
MaxDecisions == 3     \* decision calls per behaviour
MaxLen == 3           \* quintuples in a list handed to the deduplicator
CapFact == 3          \* max_size of the fact file, scaled down from 10000
CapProcess == 2       \* max_size of the process file, scaled down from 5000
CapEmotion == 2       \* max_size of the emotion file, scaled down from 3000
CapMeta == 2          \* max_size of the meta file, scaled down from 2000

Range(seq) == {seq[i] : i \in 1 .. Len(seq)}

----------------------------------------------------------------------------
(* Program constants.                                                      *)

DaySeconds == 24 * 3600
TickSeconds == 100 * DaySeconds    \* the clock advances in steps of 100 days

MemoryType == {"fact", "process", "emotion", "meta"}

retention_days(t) ==
    CASE t = "fact" -> 365
      [] t = "process" -> 90
      [] t = "emotion" -> 180
      [] t = "meta" -> 730

max_size(t) ==
    CASE t = "fact" -> CapFact
      [] t = "process" -> CapProcess
      [] t = "emotion" -> CapEmotion
      [] t = "meta" -> CapMeta

----------------------------------------------------------------------------
(* Input universe: the quintuples the callers may pass.                    *)

Subjects == {<<"a", "b">>, <<"a", "c">>, <<"x">>}
Objects == {<<"o", "a">>, <<"o", "b">>}
Scores == {5, 9}

\* create_enhanced_quintuple.  The three fields that only
\* merge_similar_quintuples adds are present from the start with the values
\* {}, 0 and -1 standing for "absent".
create_enhanced_quintuple(s, o, mt, imp, sid, ts) ==
    [subject |-> s, subject_type |-> <<"T">>, predicate |-> <<"p">>,
     object |-> o, object_type |-> <<"T">>,
     timestamp |-> ts, session_id |-> sid,
     memory_type |-> mt, importance_score |-> imp,
     session_ids |-> {}, merged_from |-> 0, merge_timestamp |-> -1]

----------------------------------------------------------------------------
(* TypedMemoryStorage                                                      *)

\* _get_memory_key: f"{subject}|{predicate}|{object}"
_get_memory_key(q) == q.subject \o <<"|">> \o q.predicate \o <<"|">> \o q.object

\* _apply_retention_policy
_apply_retention_policy(memories, days, now) ==
    IF days <= 0 THEN memories
    ELSE SelectSeq(memories, LAMBDA m : m.timestamp >= now - days * DaySeconds)

\* sorted(memories, key=importance_score, reverse=True): a stable sort, so
\* records of equal importance keep their relative order.
RECURSIVE InsertDesc(_, _)
InsertDesc(sorted, m) ==
    IF sorted = <<>> THEN <<m>>
    ELSE IF Head(sorted).importance_score >= m.importance_score
         THEN <<Head(sorted)>> \o InsertDesc(Tail(sorted), m)
         ELSE <<m>> \o sorted

RECURSIVE SortedByImportance(_)
SortedByImportance(memories) ==
    IF memories = <<>> THEN <<>>
    ELSE InsertDesc(SortedByImportance(SubSeq(memories, 1, Len(memories) - 1)),
                    memories[Len(memories)])

\* A size limit that forgets to sort: keeps the first cap records.
_apply_size_limit_unsorted(memories, cap) ==
    IF Len(memories) <= cap THEN memories
    ELSE SubSeq(memories, 1, cap)

\* _apply_size_limit
_apply_size_limit(memories, cap) ==
    IF Len(memories) <= cap THEN memories
    ELSE SubSeq(SortedByImportance(memories), 1, cap)

\* _save_memories: what is written to the type-file
_save_memories(t, memories, now) ==
    LET retained == _apply_retention_policy(memories, retention_days(t), now)
    IN IF Len(retained) > max_size(t)
       THEN _apply_size_limit(retained, max_size(t))
       ELSE retained

\* store_memory after its _load_memories call returned memories, as a
\* function of the storage state: the new file, the new index of the
\* quintuple's type, the returned value and, for observation, the list
\* handed to _save_memories.
store_memory_from(memories, fs, idx, q, now) ==
    LET t == q.memory_type
        key == _get_memory_key(q)
    IN IF key \in DOMAIN idx[t]
       THEN LET existing_index == idx[t][key]
            IN IF existing_index >= Len(memories)
               THEN \* memories[existing_index] raises IndexError
                    [files |-> fs, idx |-> idx, ret |-> FALSE, handed |-> <<>>]
               ELSE LET updated == [memories EXCEPT ![existing_index + 1] = q]
                    IN [files |-> [fs EXCEPT ![t] = _save_memories(t, updated, now)],
                        idx |-> idx, ret |-> TRUE, handed |-> updated]
       ELSE LET appended == Append(memories, q)
            IN [files |-> [fs EXCEPT ![t] = _save_memories(t, appended, now)],
                idx |-> [idx EXCEPT ![t] = (key :> (Len(appended) - 1)) @@ idx[t]],
                ret |-> TRUE, handed |-> appended]

\* store_memory starts from the list _load_memories reads from the file
store_memory(fs, idx, q, now) == store_memory_from(fs[q.memory_type], fs, idx, q, now)

\* cleanup_old_memories over the types in enumeration order; returns the
\* new files and the count.
TypeOrder == <<"fact", "process", "emotion", "meta">>

\* A cleanup that counts the expired records but does not persist the
\* reduced list.
RECURSIVE cleanup_from_unsaved(_, _, _, _)
cleanup_from_unsaved(i, fs, count, now) ==
    IF i > Len(TypeOrder) THEN [files |-> fs, ret |-> count]
    ELSE LET t == TypeOrder[i]
             memories == fs[t]
             cleaned == _apply_retention_policy(memories, retention_days(t), now)
         IN cleanup_from_unsaved(i + 1, fs, count + (Len(memories) - Len(cleaned)), now)

RECURSIVE cleanup_from(_, _, _, _)
cleanup_from(i, fs, count, now) ==
    IF i > Len(TypeOrder) THEN [files |-> fs, ret |-> count]
    ELSE LET t == TypeOrder[i]
             memories == fs[t]
             cleaned == _apply_retention_policy(memories, retention_days(t), now)
         IN IF Len(cleaned) < Len(memories)
            THEN cleanup_from(i + 1, [fs EXCEPT ![t] = _save_memories(t, cleaned, now)],
                              count + (Len(memories) - Len(cleaned)), now)
            ELSE cleanup_from(i + 1, fs, count, now)

cleanup_old_memories(fs, now) == cleanup_from(1, fs, 0, now)

----------------------------------------------------------------------------
(* SemanticDeduplicator                                                    *)

\* text.lower() on the letters of the input universe
LowerChar(c) ==
    CASE c = "A" -> "a"
      [] c = "B" -> "b"
      [] c = "C" -> "c"
      [] c = "X" -> "x"
      [] OTHER -> c

Punctuation == {".", ",", "!", "?", "|", "-"}
IsSpace(c) == c = " "

RECURSIVE MapLower(_)
MapLower(text) ==
    IF text = <<>> THEN <<>>
    ELSE <<LowerChar(Head(text))>> \o MapLower(Tail(text))

\* re.sub(r'\s+', ' ', text).strip()
RECURSIVE CollapseSpaces(_, _)
CollapseSpaces(text, pending) ==
    IF text = <<>> THEN <<>>
    ELSE IF IsSpace(Head(text)) THEN CollapseSpaces(Tail(text), TRUE)
    ELSE (IF pending THEN <<" ">> ELSE <<>>) \o <<Head(text)>>
         \o CollapseSpaces(Tail(text), FALSE)

RECURSIVE StripLeading(_)
StripLeading(text) ==
    IF text # <<>> /\ IsSpace(Head(text)) THEN StripLeading(Tail(text)) ELSE text

\* normalize_text: lower case, punctuation removed, white space collapsed
normalize_text(text) ==
    LET lowered == MapLower(text)
        cleaned == SelectSeq(lowered, LAMBDA c : c \notin Punctuation)
    IN CollapseSpaces(StripLeading(cleaned), FALSE)

\* get_quintuple_signature
get_quintuple_signature(q) ==
    normalize_text(q.subject) \o <<"|">> \o normalize_text(q.predicate)
    \o <<"|">> \o normalize_text(q.object)

\* difflib.SequenceMatcher: the length of the common run of a from i and of b
\* from j, inside a[..ahi] and b[..bhi] (1-based, inclusive bounds)
RECURSIVE RunLength(_, _, _, _, _, _)
RunLength(a, i, ahi, b, j, bhi) ==
    IF i > ahi \/ j > bhi THEN 0
    ELSE IF a[i] # b[j] THEN 0
    ELSE 1 + RunLength(a, i + 1, ahi, b, j + 1, bhi)

\* the value of a singleton set: TheOne({F(x) : x \in {e}}) is F(e) with e
\* evaluated once
TheOne(S) == CHOOSE x \in S : TRUE

\* of the candidate blocks <<i, j, size>> the longest, and of the longest
\* ones the earliest in a and then in b
BestBlock(cand, alo, blo) ==
    IF cand = {} THEN <<alo, blo, 0>>
    ELSE CHOOSE c \in cand :
             \A d \in cand :
                 \/ c[3] > d[3]
                 \/ /\ c[3] = d[3]
                    /\ (c[1] < d[1] \/ (c[1] = d[1] /\ c[2] <= d[2]))

\* find_longest_match: the longest common block of a[alo..ahi] and
\* b[blo..bhi]
find_longest_match(a, alo, ahi, b, blo, bhi) ==
    TheOne({BestBlock(cand, alo, blo) :
               cand \in {{c \in {<<p[1], p[2], RunLength(a, p[1], ahi, b, p[2], bhi)>> :
                                    p \in (alo .. ahi) \X (blo .. bhi)} : c[3] > 0}}})

\* get_matching_blocks: the total size of the matching blocks
RECURSIVE MatchingSize(_, _, _, _, _, _)
MatchingSize(a, alo, ahi, b, blo, bhi) ==
    IF alo > ahi \/ blo > bhi THEN 0
    ELSE TheOne({IF m[3] = 0 THEN 0
                 ELSE m[3]
                      + MatchingSize(a, alo, m[1] - 1, b, blo, m[2] - 1)
                      + MatchingSize(a, m[1] + m[3], ahi, b, m[2] + m[3], bhi) :
                    m \in {find_longest_match(a, alo, ahi, b, blo, bhi)}})

\* calculate_string_similarity: SequenceMatcher(None, a, b).ratio() as the
\* fraction <<numerator, denominator>>; two empty strings have ratio 1.
calculate_string_similarity(a, b) ==
    IF Len(a) + Len(b) = 0 THEN <<1, 1>>
    ELSE <<2 * MatchingSize(a, 1, Len(a), b, 1, Len(b)), Len(a) + Len(b)>>

\* calculate_semantic_similarity compared with the threshold: the weighted
\* sum of the five ratios, weights 0.3, 0.1, 0.3, 0.2, 0.1 in tenths, is at
\* least 0.8.  The fractions are compared exactly; no pair of the input
\* universe is closer to the threshold than 0.05, so the rounding of the
\* floating-point sum cannot change the comparison.
SimilarityThresholdTenths == 8

\* the five ratios of calculate_semantic_similarity
FieldRatios(q1, q2) ==
    << calculate_string_similarity(q1.subject, q2.subject),
       calculate_string_similarity(q1.subject_type, q2.subject_type),
       calculate_string_similarity(q1.predicate, q2.predicate),
       calculate_string_similarity(q1.object, q2.object),
       calculate_string_similarity(q1.object_type, q2.object_type) >>

FieldWeights == <<3, 1, 3, 2, 1>>

\* the weighted sum of the ratios r as a fraction <<numerator, denominator>>
\* in tenths
WeightedSum(r) ==
    TheOne({<< FieldWeights[1] * r[1][1] * (den \div r[1][2])
               + FieldWeights[2] * r[2][1] * (den \div r[2][2])
               + FieldWeights[3] * r[3][1] * (den \div r[3][2])
               + FieldWeights[4] * r[4][1] * (den \div r[4][2])
               + FieldWeights[5] * r[5][1] * (den \div r[5][2]), den >> :
                den \in {r[1][2] * r[2][2] * r[3][2] * r[4][2] * r[5][2]}})

\* the numerator and denominator of the similarity
SimilarityFraction(q1, q2) ==
    TheOne({WeightedSum(r) : r \in {FieldRatios(q1, q2)}})

are_semantically_similar(q1, q2) ==
    TheOne({f[1] >= SimilarityThresholdTenths * f[2] :
               f \in {SimilarityFraction(q1, q2)}})

\* similar_pairs.sort(key=similarity, reverse=True): stable insertion of
\* index j into the list of indices ordered by decreasing similarity to q
RECURSIVE InsertBySimilarity(_, _, _, _)
InsertBySimilarity(sorted, j, q, quintuples) ==
    IF sorted = <<>> THEN <<j>>
    ELSE IF \E fh \in {SimilarityFraction(q, quintuples[Head(sorted)])},
               fj \in {SimilarityFraction(q, quintuples[j])} :
                  fh[1] * fj[2] >= fj[1] * fh[2]
         THEN <<Head(sorted)>> \o InsertBySimilarity(Tail(sorted), j, q, quintuples)
         ELSE <<j>> \o sorted

\* find_similar_quintuples: the positions, other than i itself, of the
\* quintuples similar to quintuples[i], most similar first
RECURSIVE find_similar_from(_, _, _)
find_similar_from(i, quintuples, n) ==
    IF n = 0 THEN <<>>
    ELSE LET rest == find_similar_from(i, quintuples, n - 1)
         IN IF n # i /\ are_semantically_similar(quintuples[i], quintuples[n])
            THEN InsertBySimilarity(rest, n, quintuples[i], quintuples)
            ELSE rest

find_similar_quintuples(i, quintuples) == find_similar_from(i, quintuples, Len(quintuples))

\* max(similar, key=timestamp): the first record with the largest timestamp
RECURSIVE LatestOf(_)
LatestOf(similar) ==
    IF Len(similar) = 1 THEN similar[1]
    ELSE LET rest == LatestOf(Tail(similar))
         IN IF Head(similar).timestamp >= rest.timestamp THEN Head(similar) ELSE rest

RECURSIVE MaxImportance(_)
MaxImportance(similar) ==
    IF Len(similar) = 1 THEN similar[1].importance_score
    ELSE LET rest == MaxImportance(Tail(similar))
         IN IF Head(similar).importance_score >= rest
            THEN Head(similar).importance_score ELSE rest

\* merge_similar_quintuples (called with a non-empty list)
merge_similar_quintuples(similar) ==
    IF Len(similar) = 1 THEN similar[1]
    ELSE LET base == LatestOf(similar)
         IN [base EXCEPT
                !.importance_score = MaxImportance(similar),
                !.session_ids = {similar[k].session_id : k \in 1 .. Len(similar)},
                !.merged_from = Len(similar),
                !.merge_timestamp = base.timestamp]

\* deduplicate_quintuples: the loop over the positions from i on, with the
\* set of processed positions
RECURSIVE dedup_from(_, _, _)
dedup_from(i, quintuples, processed) ==
    IF i > Len(quintuples) THEN <<>>
    ELSE IF i \in processed THEN dedup_from(i + 1, quintuples, processed)
    ELSE TheOne({
             IF similar_pairs # <<>>
             THEN <<merge_similar_quintuples(
                      [k \in 1 .. Len(similar_pairs) + 1 |->
                          quintuples[(<<i>> \o similar_pairs)[k]]])>>
                  \o dedup_from(i + 1, quintuples,
                         processed \cup {i} \cup Range(similar_pairs))
             ELSE <<quintuples[i]>> \o dedup_from(i + 1, quintuples, processed \cup {i}) :
             similar_pairs \in {find_similar_quintuples(i, quintuples)}})

deduplicate_quintuples(quintuples) == dedup_from(1, quintuples, {})

\* fast_deduplicate: the first quintuple of every signature
RECURSIVE fast_from(_, _)
fast_from(quintuples, seen_signatures) ==
    IF quintuples = <<>> THEN <<>>
    ELSE LET signature == get_quintuple_signature(Head(quintuples))
         IN IF signature \notin seen_signatures
            THEN <<Head(quintuples)>>
                 \o fast_from(Tail(quintuples), seen_signatures \cup {signature})
            ELSE fast_from(Tail(quintuples), seen_signatures)

fast_deduplicate(quintuples) == fast_from(quintuples, {})

\* smart_deduplicate
smart_deduplicate(quintuples) == deduplicate_quintuples(fast_deduplicate(quintuples))

----------------------------------------------------------------------------
(* The typed-storage specification: calls on one TypedMemoryStorage        *)
(* instance, with the clock advancing between calls.                       *)

EmptyIndex == [x \in {} |-> 0]

\* the threads asyncio.to_thread runs the fallback path on
Threads == {"worker1", "worker2"}

IdleThread ==
    [pc |-> "idle", batch |-> <<>>, k |-> 1, memories |-> <<>>,
     all_quintuples |-> <<>>, storage_success |-> TRUE,
     written |-> 0, deduplicated |-> FALSE, ret |-> FALSE]

Workers == 1 .. MaxWorkers

\* config.grag.context_length
context_length == 2

\* GRAGMemoryManager.__init__: the configuration is read and the manager
\* starts with no context, no cache and no active task
NewManager(enabled, auto_extract) ==
    [enabled |-> enabled, auto_extract |-> auto_extract,
     context_length |-> context_length,
     recent_context |-> <<>>, extraction_cache |-> {}, active_tasks |-> {}]

\* the task manager before start_task_manager; GRAGMemoryManager.__init__
\* registers _on_task_completed_wrapper as on_task_completed and registers
\* nothing as on_task_failed.  A worker holds 0 when it runs no task.
NewTaskManager ==
    [is_running |-> FALSE, tasks |-> <<>>, task_queue |-> <<>>,
     workers |-> [w \in Workers |-> 0],
     on_task_completed |-> "_on_task_completed_wrapper",
     on_task_failed |-> "None"]

\* MultiModalQuerySystem.__init__
NewQuerySystem == [search_history |-> <<>>, performance_stats |-> <<>>]

\* EntityDisambiguator.__init__ with no entities.json: the dicts are functions
\* on their keys, entities_file the entities last saved
NewDisambiguator ==
    [entities |-> <<>>, name_index |-> <<>>, alias_index |-> <<>>, context_index |-> <<>>,
     entities_file |-> <<>>]

\* IntelligentMemoryExtractor.__init__
NewExtractor == [query_history |-> <<>>, performance_metrics |-> <<>>]

\* TypedMemoryStorage.__init__ in a fresh directory, an empty master list
InitStorage ==
    /\ clock = 0
    /\ files = [t \in MemoryType |-> <<>>]
    /\ memory_indices = [t \in MemoryType |-> EmptyIndex]
    /\ quintuples_file = <<>>
    /\ graph_rels = {}
    /\ last = [op |-> "init"]
    /\ inputs = {}
    /\ thr = [th \in Threads |-> IdleThread]
    /\ manager = NewManager(TRUE, TRUE)
    /\ task_manager = NewTaskManager
    /\ loop_calls = <<>>
    /\ extractor = NewExtractor
    /\ memory_decision_maker = [enabled |-> TRUE]
    /\ multi_modal_query_system = NewQuerySystem
    /\ entity_disambiguator = NewDisambiguator
    /\ nops = 0

Init ==
    /\ InitStorage
    /\ graph = "None"

StoreMemory ==
    /\ nops < MaxOps
    /\ \E s \in Subjects, mt \in MemoryType, imp \in Scores :
         LET q == create_enhanced_quintuple(s, <<"o", "a">>, mt, imp, "s1", clock)
             r == store_memory(files, memory_indices, q, clock)
         IN /\ files' = r.files
            /\ memory_indices' = r.idx
            /\ last' = [op |-> "store_memory", q |-> q, ret |-> r.ret,
                        handed |-> r.handed]
    /\ nops' = nops + 1
    /\ UNCHANGED <<extractor, memory_decision_maker, multi_modal_query_system, entity_disambiguator, clock, quintuples_file, graph, graph_rels, inputs, thr, manager, task_manager, loop_calls>>

CleanupOldMemories ==
    /\ nops < MaxOps
    /\ LET r == cleanup_old_memories(files, clock)
       IN /\ files' = r.files
          /\ last' = [op |-> "cleanup_old_memories", ret |-> r.ret]
    /\ nops' = nops + 1
    /\ UNCHANGED <<extractor, memory_decision_maker, multi_modal_query_system, entity_disambiguator, clock, memory_indices, quintuples_file, graph, graph_rels, inputs, thr, manager, task_manager, loop_calls>>

Tick ==
    /\ nops < MaxOps
    /\ clock < MaxTicks * TickSeconds
    /\ clock' = clock + TickSeconds
    /\ last' = [op |-> "tick"]
    /\ nops' = nops + 1
    /\ UNCHANGED <<extractor, memory_decision_maker, multi_modal_query_system, entity_disambiguator, files, memory_indices, quintuples_file, graph, graph_rels, inputs, thr, manager, task_manager, loop_calls>>

Next == StoreMemory \/ CleanupOldMemories \/ Tick

Spec == Init /\ [][Next]_vars

----------------------------------------------------------------------------
(* quintuple_graph.store_quintuples                                        *)

\* the loop over new_quintuples calling typed_memory_storage.store_memory
RECURSIVE store_typed_from(_, _, _, _, _, _)
store_typed_from(k, batch, fs, idx, ok, now) ==
    IF k > Len(batch) THEN [files |-> fs, idx |-> idx, storage_success |-> ok]
    ELSE LET r == store_memory(fs, idx, batch[k], now)
         IN store_typed_from(k + 1, batch, r.files, r.idx, ok /\ r.ret, now)

\* the loop merging the new quintuples into the graph backend; raises tells
\* whether the merge calls of this run raise.  A quintuple with an empty
\* head or tail is skipped.
RECURSIVE store_graph_from(_, _, _, _, _)
store_graph_from(k, batch, rels, ok, raises) ==
    IF k > Len(batch) THEN [rels |-> rels, graph_success |-> ok]
    ELSE LET q == batch[k]
         IN IF q.subject = <<>> \/ q.object = <<>>
            THEN store_graph_from(k + 1, batch, rels, ok, raises)
            ELSE IF raises
            THEN store_graph_from(k + 1, batch, rels, FALSE, raises)
            ELSE store_graph_from(k + 1, batch,
                     rels \cup {<<q.subject, q.predicate, q.object>>}, ok, raises)

\* store_quintuples as a function of the stores: typed storage first, then
\* the master list through smart_deduplicate, then the graph backend.
store_quintuples(fs, idx, master, g, rels, batch, now, raises) ==
    LET typed == store_typed_from(1, batch, fs, idx, TRUE, now)
        all_quintuples == master
        combined_quintuples == all_quintuples \o batch
        deduplicated_quintuples == smart_deduplicate(combined_quintuples)
        gr == IF g # "None"
              THEN store_graph_from(1, batch, rels, TRUE, raises)
              ELSE [rels |-> rels, graph_success |-> TRUE]
    IN [files |-> typed.files, idx |-> typed.idx,
        master |-> deduplicated_quintuples, rels |-> gr.rels,
        storage_success |-> typed.storage_success,
        graph_success |-> gr.graph_success,
        ret |-> typed.storage_success /\ gr.graph_success]

----------------------------------------------------------------------------
(* The store specification: store_quintuples calls, one after the other,   *)
(* with the graph backend absent or connected.                             *)

StoreSubjects == {<<"a", "b">>, <<"a", "c">>}

\* a quintuple of the call number n at position k of its batch: every
\* quintuple gets a session id of its own, as uuid4 gives it
NewQuintuple(s, o, imp, n, k, now) ==
    create_enhanced_quintuple(s, o, "fact", imp, <<n, k>>, now)

StoreInputs == StoreSubjects \X Objects \X Scores

Batches(n, now) ==
    UNION {
        {[k \in 1 .. len |-> NewQuintuple(c[k][1], c[k][2], c[k][3], n, k, now)] :
            c \in [1 .. len -> StoreInputs]} :
        len \in 1 .. MaxBatch}

InitStore ==
    /\ InitStorage
    /\ graph \in {"None", "connected"}

StoreQuintuples ==
    /\ nops < MaxStores
    /\ \E batch \in Batches(nops + 1, clock),
          raises \in (IF graph = "None" THEN {FALSE} ELSE BOOLEAN) :
         LET r == store_quintuples(files, memory_indices, quintuples_file,
                                   graph, graph_rels, batch, clock, raises)
         IN /\ files' = r.files
            /\ memory_indices' = r.idx
            /\ quintuples_file' = r.master
            /\ graph_rels' = r.rels
            /\ last' = [op |-> "store_quintuples", batch |-> batch,
                        before |-> quintuples_file,
                        raises |-> raises, ret |-> r.ret,
                        storage_success |-> r.storage_success]
            /\ inputs' = inputs \cup Range(batch)
    /\ nops' = nops + 1
    /\ clock' = clock + 1
    /\ UNCHANGED <<extractor, memory_decision_maker, multi_modal_query_system, entity_disambiguator, graph, thr, manager, task_manager, loop_calls>>

NextStore == StoreQuintuples

SpecStore == InitStore /\ [][NextStore]_vars

----------------------------------------------------------------------------
(* The concurrent specification: two runs of the fallback path             *)
(* (_extract_and_store_quintuples_fallback), each on a thread of its own,  *)
(* interleaved at the file reads and writes of store_quintuples.  The      *)
(* storage takes no lock, so a thread can be preempted between a read of   *)
(* a file and the write that follows it.  The graph backend is absent.     *)

ConcSubjects == {<<"a", "b">>, <<"x">>}
ConcInputs == ConcSubjects \X {<<"o", "a">>} \X {5}

ConcBatches(th) ==
    UNION {
        {[k \in 1 .. len |-> NewQuintuple(c[k][1], c[k][2], c[k][3], th, k, 0)] :
            c \in [1 .. len -> ConcInputs]} :
        len \in 1 .. MaxBatch}

InitConc ==
    /\ InitStorage
    /\ graph = "None"

\* asyncio.to_thread(extract_quintuples, text): the extracted quintuples,
\* scored by analyze_memory_importance, are the batch of this run
Extract(th) ==
    /\ thr[th].pc = "idle"
    /\ \E batch \in ConcBatches(th) :
         /\ thr' = [thr EXCEPT ![th] = [@ EXCEPT !.pc = "_load_memories",
                                                  !.batch = batch]]
         /\ inputs' = inputs \cup Range(batch)
    /\ UNCHANGED <<extractor, memory_decision_maker, multi_modal_query_system, entity_disambiguator, clock, files, memory_indices, quintuples_file, graph,
                   graph_rels, last, manager, task_manager, loop_calls, nops>>

\* store_memory, first half: memories = self._load_memories(memory_type)
LoadMemories(th) ==
    /\ thr[th].pc = "_load_memories"
    /\ thr' = [thr EXCEPT ![th] =
                  [@ EXCEPT !.pc = "_save_memories",
                            !.memories = files[thr[th].batch[thr[th].k].memory_type]]]
    /\ UNCHANGED <<extractor, memory_decision_maker, multi_modal_query_system, entity_disambiguator, clock, files, memory_indices, quintuples_file, graph,
                   graph_rels, last, inputs, manager, task_manager, loop_calls, nops>>

\* store_memory, second half: the index lookup, the update of the loaded
\* list and self._save_memories(memory_type, memories)
SaveMemories(th) ==
    /\ thr[th].pc = "_save_memories"
    /\ LET t == thr[th]
           r == store_memory_from(t.memories, files, memory_indices, t.batch[t.k], clock)
           more == t.k < Len(t.batch)
       IN /\ files' = r.files
          /\ memory_indices' = r.idx
          /\ thr' = [thr EXCEPT ![th] =
                        [@ EXCEPT !.pc = IF more THEN "_load_memories" ELSE "load_quintuples",
                                  !.k = t.k + 1,
                                  !.storage_success = t.storage_success /\ r.ret,
                                  !.written = IF r.ret THEN t.written + 1 ELSE t.written]]
    /\ UNCHANGED <<extractor, memory_decision_maker, multi_modal_query_system, entity_disambiguator, clock, quintuples_file, graph, graph_rels, last, inputs,
                   manager, task_manager, loop_calls, nops>>

\* all_quintuples = load_quintuples()
LoadQuintuples(th) ==
    /\ thr[th].pc = "load_quintuples"
    /\ thr' = [thr EXCEPT ![th] = [@ EXCEPT !.pc = "save_quintuples",
                                             !.all_quintuples = quintuples_file]]
    /\ UNCHANGED <<extractor, memory_decision_maker, multi_modal_query_system, entity_disambiguator, clock, files, memory_indices, quintuples_file, graph,
                   graph_rels, last, inputs, manager, task_manager, loop_calls, nops>>

\* smart_deduplicate(all_quintuples + new_quintuples), save_quintuples and,
\* the graph being None, the return of storage_success
SaveQuintuples(th) ==
    /\ thr[th].pc = "save_quintuples"
    /\ quintuples_file' = smart_deduplicate(thr[th].all_quintuples \o thr[th].batch)
    /\ thr' = [thr EXCEPT ![th] = [@ EXCEPT !.pc = "done",
                                             !.deduplicated = TRUE,
                                             !.ret = thr[th].storage_success]]
    /\ UNCHANGED <<extractor, memory_decision_maker, multi_modal_query_system, entity_disambiguator, clock, files, memory_indices, graph, graph_rels, last,
                   inputs, manager, task_manager, loop_calls, nops>>

NextConc ==
    \E th \in Threads :
        \/ Extract(th)
        \/ LoadMemories(th)
        \/ SaveMemories(th)
        \/ LoadQuintuples(th)
        \/ SaveQuintuples(th)

SpecConc == InitConc /\ [][NextConc]_vars

----------------------------------------------------------------------------
(* The task manager.  summer_memory/task_manager.py is imported by         *)
(* memory_manager.py; its operations are modelled from the contract the    *)
(* specification gives for it: add_task enqueues and returns an id, the    *)
(* workers of the pool take queued tasks one at a time, run the extraction *)
(* and fire on_task_completed or on_task_failed.                           *)

\* a start that leaves the task manager as it is
start_task_manager_skipped(tm) == tm

start_task_manager(tm) == [tm EXCEPT !.is_running = TRUE]

add_task(tm, text) ==
    LET task_id == Len(tm.tasks) + 1
    IN [tm |-> [tm EXCEPT !.tasks = Append(@, [status |-> "queued", text |-> text,
                                                runs |-> 0]),
                          !.task_queue = Append(@, task_id)],
        task_id |-> task_id]

\* a worker that reads the head of the queue and leaves it there
take_task_peek(tm, w) ==
    LET task_id == Head(tm.task_queue)
    IN [tm EXCEPT !.workers[w] = task_id,
                  !.tasks[task_id].status = "running",
                  !.tasks[task_id].runs = @ + 1]

\* a worker removes the head of the queue and runs its pipeline
take_task(tm, w) ==
    LET task_id == Head(tm.task_queue)
    IN [tm EXCEPT !.task_queue = Tail(@),
                  !.workers[w] = task_id,
                  !.tasks[task_id].status = "running",
                  !.tasks[task_id].runs = @ + 1]

\* the pipeline of worker w ends with the given status
finish_task(tm, w, status) ==
    [tm EXCEPT !.tasks[tm.workers[w]].status = status,
               !.workers[w] = 0]

----------------------------------------------------------------------------
(* GRAGMemoryManager                                                       *)

Texts == {"t1", "t2"}

\* hashlib.sha256(text.encode()).hexdigest(), injective on Texts
text_hash(text) == <<"sha256", text>>

\* what extract_quintuples can return for the text of submission n
Extractions(n, now) ==
    {<<>>} \cup {<<NewQuintuple(s, <<"o", "a">>, 5, n, 1, now)>> : s \in StoreSubjects}

\* lst[-n:] for n >= 0: the last n elements, and the whole list for n = 0
\* since -0 is 0
LastSlice(lst, n) ==
    IF n = 0 \/ n >= Len(lst) THEN lst ELSE SubSeq(lst, Len(lst) - n + 1, Len(lst))

\* recent_context.append(conversation_text), cut with [-context_length:]
\* when longer than length, the context_length of the manager
append_context(recent_context, text, length) ==
    LET appended == Append(recent_context, text)
    IN IF Len(appended) > length THEN LastSlice(appended, length) ELSE appended

FallbackOutcomes == {"extract_timeout", "extracted", "store_timeout"}

\* a fallback that does not look the hash of the text up in the cache
_extract_and_store_quintuples_fallback_uncached(mgr, fs, idx, master, text, outcome, quintuples, now) ==
    LET cached == text_hash(text) \in mgr.extraction_cache
    IN IF outcome = "extract_timeout" \/ quintuples = <<>>
       THEN [manager |-> mgr, files |-> fs, idx |-> idx, master |-> master,
             stored |-> <<>>, ret |-> FALSE, cached |-> cached]
       ELSE LET r == store_quintuples(fs, idx, master, "None", {}, quintuples, now, FALSE)
                store_success == r.ret /\ outcome # "store_timeout"
            IN [manager |-> IF store_success
                            THEN [mgr EXCEPT !.extraction_cache = @ \cup {text_hash(text)}]
                            ELSE mgr,
                files |-> r.files, idx |-> r.idx, master |-> r.master,
                stored |-> quintuples, ret |-> store_success, cached |-> cached]

\* _extract_and_store_quintuples_fallback as a function of the state: the
\* extraction returns quintuples or times out, the store runs to its end
\* in its thread whether or not the wait for it times out
_extract_and_store_quintuples_fallback(mgr, fs, idx, master, text, outcome, quintuples, now) ==
    LET unchanged == [manager |-> mgr, files |-> fs, idx |-> idx, master |-> master,
                      stored |-> <<>>, ret |-> FALSE,
                      cached |-> text_hash(text) \in mgr.extraction_cache]
    IN IF text_hash(text) \in mgr.extraction_cache
       THEN [unchanged EXCEPT !.ret = TRUE]
       ELSE IF outcome = "extract_timeout" \/ quintuples = <<>>
       THEN unchanged
       ELSE LET r == store_quintuples(fs, idx, master, "None", {}, quintuples, now, FALSE)
                store_success == r.ret /\ outcome # "store_timeout"
            IN [manager |-> IF store_success
                            THEN [mgr EXCEPT !.extraction_cache = @ \cup {text_hash(text)}]
                            ELSE mgr,
                files |-> r.files, idx |-> r.idx, master |-> r.master,
                stored |-> quintuples, ret |-> store_success, cached |-> FALSE]

----------------------------------------------------------------------------
(* The task specification: conversation turns are submitted, the workers   *)
(* of the pool run the extractions, the event loop runs the callbacks.     *)

InitTasks ==
    /\ clock = 0
    /\ files = [t \in MemoryType |-> <<>>]
    /\ memory_indices = [t \in MemoryType |-> EmptyIndex]
    /\ quintuples_file = <<>>
    /\ graph = "None"
    /\ graph_rels = {}
    /\ last = [op |-> "init"]
    /\ inputs = {}
    /\ thr = [th \in Threads |-> IdleThread]
    /\ \E enabled \in BOOLEAN, auto_extract \in BOOLEAN :
           manager = NewManager(enabled, auto_extract)
    /\ task_manager = NewTaskManager
    /\ loop_calls = <<>>
    /\ extractor = NewExtractor
    /\ memory_decision_maker = [enabled |-> TRUE]
    /\ multi_modal_query_system = NewQuerySystem
    /\ entity_disambiguator = NewDisambiguator
    /\ nops = 0

AddConversationMemory ==
    /\ nops < MaxTasks
    /\ nops' = nops + 1
    /\ \E text \in Texts :
        IF ~manager.enabled
        THEN /\ last' = [op |-> "add_conversation_memory", ret |-> FALSE]
             /\ UNCHANGED <<manager, task_manager, files, memory_indices,
                            quintuples_file, inputs>>
        ELSE LET mgr == [manager EXCEPT !.recent_context = append_context(@, text, manager.context_length)]
             IN IF ~manager.auto_extract
                THEN /\ manager' = mgr
                     /\ last' = [op |-> "add_conversation_memory", ret |-> TRUE]
                     /\ UNCHANGED <<task_manager, files, memory_indices,
                                    quintuples_file, inputs>>
                ELSE LET tm == IF ~task_manager.is_running
                               THEN start_task_manager(task_manager)
                               ELSE task_manager
                     IN \/ \* add_task returns the id of the queued task
                           LET a == add_task(tm, text)
                           IN /\ task_manager' = a.tm
                              /\ manager' = [mgr EXCEPT !.active_tasks = @ \cup {a.task_id}]
                              /\ last' = [op |-> "add_conversation_memory", ret |-> TRUE,
                                          task_id |-> a.task_id,
                                          started |-> ~task_manager.is_running]
                              /\ UNCHANGED <<files, memory_indices, quintuples_file, inputs>>
                        \/ \* add_task raises: the fallback extracts and stores
                           \E outcome \in FallbackOutcomes,
                              quintuples \in Extractions(nops + 1, clock) :
                               LET f == _extract_and_store_quintuples_fallback(
                                            mgr, files, memory_indices, quintuples_file,
                                            text, outcome, quintuples, clock)
                               IN /\ task_manager' = tm
                                  /\ manager' = f.manager
                                  /\ files' = f.files
                                  /\ memory_indices' = f.idx
                                  /\ quintuples_file' = f.master
                                  /\ inputs' = inputs \cup Range(f.stored)
                                  /\ last' = [op |-> "add_conversation_memory", ret |-> TRUE,
                                              fallback |-> [text |-> text, ret |-> f.ret,
                                                            cached |-> f.cached,
                                                            stored |-> f.stored]]
    /\ UNCHANGED <<extractor, memory_decision_maker, multi_modal_query_system, entity_disambiguator, clock, graph, graph_rels, thr, loop_calls>>

\* store_memory_intelligent with _store_memory_by_decision: the decision is
\* one of those decide_memory_generation can return
StoreMemoryIntelligent ==
    /\ nops < MaxTasks
    /\ nops' = nops + 1
    /\ \E text \in Texts, should_store \in BOOLEAN :
        IF ~manager.enabled \/ ~should_store
        THEN /\ last' = [op |-> "store_memory_intelligent", ret |-> FALSE]
             /\ UNCHANGED <<manager, task_manager, files, memory_indices,
                            quintuples_file, inputs>>
        ELSE LET mgr == [manager EXCEPT !.recent_context = append_context(@, text, manager.context_length)]
             IN IF ~manager.auto_extract
                THEN /\ manager' = mgr
                     /\ last' = [op |-> "store_memory_intelligent", ret |-> TRUE]
                     /\ UNCHANGED <<task_manager, files, memory_indices,
                                    quintuples_file, inputs>>
                ELSE LET tm == IF ~task_manager.is_running
                               THEN start_task_manager(task_manager)
                               ELSE task_manager
                     IN \/ \* add_task returns the id of the queued task
                           LET a == add_task(tm, text)
                           IN /\ task_manager' = a.tm
                              /\ manager' = [mgr EXCEPT !.active_tasks = @ \cup {a.task_id}]
                              /\ last' = [op |-> "store_memory_intelligent", ret |-> TRUE,
                                          task_id |-> a.task_id,
                                          started |-> ~task_manager.is_running]
                              /\ UNCHANGED <<files, memory_indices, quintuples_file, inputs>>
                        \/ \* add_task raises: the result is the fallback's
                           \E outcome \in FallbackOutcomes,
                              quintuples \in Extractions(nops + 1, clock) :
                               LET f == _extract_and_store_quintuples_fallback(
                                            mgr, files, memory_indices, quintuples_file,
                                            text, outcome, quintuples, clock)
                               IN /\ task_manager' = tm
                                  /\ manager' = f.manager
                                  /\ files' = f.files
                                  /\ memory_indices' = f.idx
                                  /\ quintuples_file' = f.master
                                  /\ inputs' = inputs \cup Range(f.stored)
                                  /\ last' = [op |-> "store_memory_intelligent", ret |-> f.ret,
                                              fallback |-> [text |-> text, ret |-> f.ret,
                                                            cached |-> f.cached,
                                                            stored |-> f.stored]]
    /\ UNCHANGED <<extractor, memory_decision_maker, multi_modal_query_system, entity_disambiguator, clock, graph, graph_rels, thr, loop_calls>>

\* an idle worker of the running pool takes the next queued task
WorkerTake(w) ==
    /\ task_manager.is_running
    /\ task_manager.workers[w] = 0
    /\ task_manager.task_queue # <<>>
    /\ task_manager' = take_task(task_manager, w)
    /\ UNCHANGED <<extractor, memory_decision_maker, multi_modal_query_system, entity_disambiguator, clock, files, memory_indices, quintuples_file, graph, graph_rels,
                   last, inputs, thr, manager, loop_calls, nops>>

\* the pipeline of worker w ends: on_task_completed(task_id, quintuples) is
\* fired; _on_task_completed_wrapper schedules _on_task_completed on the loop
WorkerComplete(w) ==
    /\ task_manager.workers[w] # 0
    /\ \E quintuples \in Extractions(task_manager.workers[w] + MaxTasks, clock) :
         loop_calls' =
             IF task_manager.on_task_completed = "None" THEN loop_calls
             ELSE Append(loop_calls, [fn |-> "_on_task_completed",
                                      task_id |-> task_manager.workers[w],
                                      quintuples |-> quintuples])
    /\ task_manager' = finish_task(task_manager, w, "completed")
    /\ UNCHANGED <<extractor, memory_decision_maker, multi_modal_query_system, entity_disambiguator, clock, files, memory_indices, quintuples_file, graph, graph_rels,
                   last, inputs, thr, manager, nops>>

\* the pipeline of worker w raises: the task is marked failed and
\* on_task_failed is fired if one is registered
WorkerFail(w) ==
    /\ task_manager.workers[w] # 0
    /\ loop_calls' =
           IF task_manager.on_task_failed = "None" THEN loop_calls
           ELSE Append(loop_calls, [fn |-> "_on_task_failed",
                                    task_id |-> task_manager.workers[w],
                                    quintuples |-> <<>>])
    /\ task_manager' = finish_task(task_manager, w, "failed")
    /\ UNCHANGED <<extractor, memory_decision_maker, multi_modal_query_system, entity_disambiguator, clock, files, memory_indices, quintuples_file, graph, graph_rels,
                   last, inputs, thr, manager, nops>>

\* the event loop runs the next scheduled coroutine: _on_task_completed
\* discards the id and stores the quintuples, _on_task_failed discards the id
RunCallback ==
    /\ loop_calls # <<>>
    /\ LET call == Head(loop_calls)
           mgr == [manager EXCEPT !.active_tasks = @ \ {call.task_id}]
       IN /\ manager' = mgr
          /\ IF call.fn = "_on_task_completed" /\ call.quintuples # <<>>
             THEN LET r == store_quintuples(files, memory_indices, quintuples_file,
                                            graph, graph_rels, call.quintuples,
                                            clock, FALSE)
                  IN /\ files' = r.files
                     /\ memory_indices' = r.idx
                     /\ quintuples_file' = r.master
                     /\ inputs' = inputs \cup Range(call.quintuples)
             ELSE UNCHANGED <<files, memory_indices, quintuples_file, inputs>>
          /\ last' = [op |-> call.fn, task_id |-> call.task_id]
    /\ loop_calls' = Tail(loop_calls)
    /\ UNCHANGED <<extractor, memory_decision_maker, multi_modal_query_system, entity_disambiguator, clock, graph, graph_rels, thr, task_manager, nops>>

NextTasks ==
    \/ AddConversationMemory
    \/ StoreMemoryIntelligent
    \/ \E w \in Workers : WorkerTake(w)
    \/ \E w \in Workers : WorkerComplete(w)
    \/ \E w \in Workers : WorkerFail(w)
    \/ RunCallback

SpecTasks == InitTasks /\ [][NextTasks]_vars

----------------------------------------------------------------------------
(* The deduplication specification: deduplicate_quintuples and             *)
(* smart_deduplicate applied once per behaviour to a list, and applied     *)
(* again to the result.                                                    *)

Timestamps == {0, 1}

\* the lists of at most MaxLen quintuples over the store keys, each with a
\* session of its own
DedupLists ==
    UNION {
        {[k \in 1 .. len |-> NewQuintuple(c[k][1], c[k][2], 5, 0, k, c[k][3])] :
            c \in [1 .. len -> StoreSubjects \X Objects \X Timestamps]} :
        len \in 1 .. MaxLen}

DeduplicateQuintuples ==
    /\ nops = 0
    /\ nops' = 1
    /\ \E L \in DedupLists :
         \E once \in {deduplicate_quintuples(L)} :
             last' = [op |-> "deduplicate_quintuples", L |-> L, once |-> once,
                      twice |-> deduplicate_quintuples(once)]
    /\ UNCHANGED <<extractor, memory_decision_maker, multi_modal_query_system, entity_disambiguator, clock, files, memory_indices, quintuples_file, graph, graph_rels,
                   inputs, thr, manager, task_manager, loop_calls>>

SmartDeduplicate ==
    /\ nops = 0
    /\ nops' = 1
    /\ \E L \in DedupLists :
         \E once \in {smart_deduplicate(L)} :
             last' = [op |-> "smart_deduplicate", L |-> L, once |-> once,
                      twice |-> smart_deduplicate(once)]
    /\ UNCHANGED <<extractor, memory_decision_maker, multi_modal_query_system, entity_disambiguator, clock, files, memory_indices, quintuples_file, graph, graph_rels,
                   inputs, thr, manager, task_manager, loop_calls>>

NextDedup == DeduplicateQuintuples \/ SmartDeduplicate

SpecDedup == Init /\ [][NextDedup]_vars

----------------------------------------------------------------------------
(* TimeAxisManager.  An optional argument is a set: {} for None, {v} for   *)
(* the value v.  A decay factor is in thousandths, a decayed importance in *)
(* ten-thousandths (tenths times thousandths).                             *)

half_life == 30 * DaySeconds

\* a quintuple whose timestamp is a str carries it in the field
\* timestamp_str as [ok, value]: ok tells whether strptime parses it and
\* value is the epoch it parses to; a quintuple that has the key
\* "timestamp_raw" carries that field
_get_timestamp_from_quintuple(q, now) ==
    IF "timestamp_raw" \in DOMAIN q THEN q.timestamp_raw
    ELSE IF "timestamp_str" \in DOMAIN q /\ q.timestamp_str.ok THEN q.timestamp_str.value
    ELSE now

\* math.exp(k) in thousandths, for the whole numbers k the ages of the
\* input universe give
exp_thousandths(k) ==
    CASE k = 1 -> 2718
      [] k = 0 -> 1000
      [] k = -1 -> 368
      [] k = -2 -> 135
      [] k = -3 -> 50
      [] k = -4 -> 18

\* calculate_time_decay_factor of a value [kind, value]: a quintuple
\* ("dict"), a timestamp string ("str", value = [ok, value]) or a number
calculate_time_decay_factor(timestamp, now) ==
    \* the ages of the input universe are whole multiples of half_life
    TheOne({IF decay_factor >= 100 THEN decay_factor ELSE 100 :
               decay_factor \in {exp_thousandths(
                   (CASE timestamp.kind = "dict" ->
                             _get_timestamp_from_quintuple(timestamp.value, now) - now
                      [] timestamp.kind = "str" ->
                             IF timestamp.value.ok THEN timestamp.value.value - now ELSE 0
                      [] OTHER -> timestamp.value - now) \div half_life)}})

apply_time_decay(q, now) ==
    q.importance_score * calculate_time_decay_factor([kind |-> "dict", value |-> q], now)

filter_by_time_window(quintuples, time_window, start_time, end_time, now) ==
    SelectSeq(quintuples,
              LAMBDA q :
                  \A quintuple_time \in {_get_timestamp_from_quintuple(q, now)} :
                      /\ \A w \in time_window : ~(now - quintuple_time > w)
                      /\ \A t \in start_time : ~(quintuple_time < t)
                      /\ \A t \in end_time : ~(quintuple_time > t))

get_recent_quintuples(quintuples, hours, now) ==
    filter_by_time_window(quintuples, {hours * 3600}, {}, {}, now)

----------------------------------------------------------------------------
(* The time-axis specification: one call of a TimeAxisManager operation    *)
(* per behaviour, at a clock of 120 days, on quintuples built by           *)
(* create_enhanced_quintuple (timestamp a number, no timestamp_raw), on    *)
(* legacy quintuples converted by load_quintuples (timestamp a string and  *)
(* a timestamp_raw) and on bare timestamps.                                *)

TimeNow == 4 * half_life

\* ages for the window filters: now, one hour, two days
FilterAges == {0, 3600, 2 * DaySeconds}

\* ages for the decay: one half_life in the future, now, one and three in
\* the past
DecayAges == {0 - half_life, 0, half_life, 3 * half_life}

EnhancedQuintuple(s, age) ==
    create_enhanced_quintuple(s, <<"o", "a">>, "fact", 9, "s1", TimeNow - age)

\* load_quintuples on an old-format file: "timestamp" is the formatted
\* string of the load time and "timestamp_raw" the load time
LegacyQuintuple(s, age) ==
    [subject |-> s, subject_type |-> <<"T">>, predicate |-> <<"p">>,
     object |-> <<"o", "a">>, object_type |-> <<"T">>,
     timestamp_str |-> [ok |-> TRUE, value |-> TimeNow - age],
     timestamp_raw |-> TimeNow - age, session_id |-> "s1",
     memory_type |-> "fact", importance_score |-> 5]

TimeLists ==
    UNION {
        {[k \in 1 .. len |-> EnhancedQuintuple(c[k][1], c[k][2])] :
            c \in [1 .. len -> ConcSubjects \X FilterAges]} :
        len \in 1 .. MaxBatch}

Windows == {{}, {DaySeconds}, {3 * DaySeconds}}
Bounds == {{}, {TimeNow - DaySeconds}, {TimeNow - 1800}}

FloatInputs == {[kind |-> "float", value |-> TimeNow - age] : age \in DecayAges}

StrInputs ==
    {[kind |-> "str", value |-> [ok |-> ok, value |-> TimeNow - age]] :
        ok \in BOOLEAN, age \in DecayAges}

DictInputs ==
    {[kind |-> "dict", value |-> EnhancedQuintuple(<<"x">>, age)] : age \in DecayAges}
    \cup {[kind |-> "dict", value |-> LegacyQuintuple(<<"x">>, age)] : age \in DecayAges}

InitTime ==
    /\ InitStorage
    /\ graph = "None"

TimeUnchanged ==
    UNCHANGED <<extractor, memory_decision_maker, multi_modal_query_system, entity_disambiguator, files, memory_indices, quintuples_file, graph, graph_rels,
                inputs, thr, manager, task_manager, loop_calls>>

FilterByTimeWindow ==
    /\ nops = 0
    /\ nops' = 1
    /\ clock' = TimeNow
    /\ \E quintuples \in TimeLists, time_window \in Windows,
          start_time \in Bounds, end_time \in Bounds :
         last' = [op |-> "filter_by_time_window", quintuples |-> quintuples,
                  time_window |-> time_window, start_time |-> start_time,
                  end_time |-> end_time,
                  ret |-> filter_by_time_window(quintuples, time_window, start_time,
                                                end_time, TimeNow)]
    /\ TimeUnchanged

GetRecentQuintuples ==
    /\ nops = 0
    /\ nops' = 1
    /\ clock' = TimeNow
    /\ \E quintuples \in TimeLists :
         last' = [op |-> "get_recent_quintuples", quintuples |-> quintuples,
                  time_window |-> {24 * 3600}, start_time |-> {}, end_time |-> {},
                  ret |-> get_recent_quintuples(quintuples, 24, TimeNow)]
    /\ TimeUnchanged

DecayOf(timestamp) ==
    last' = [op |-> "calculate_time_decay_factor", timestamp |-> timestamp,
             ret |-> calculate_time_decay_factor(timestamp, TimeNow)]

CalculateTimeDecayFactor ==
    /\ nops = 0
    /\ nops' = 1
    /\ clock' = TimeNow
    /\ \/ \E timestamp \in FloatInputs : DecayOf(timestamp)
       \/ \E timestamp \in StrInputs : DecayOf(timestamp)
       \/ \E timestamp \in DictInputs : DecayOf(timestamp)
    /\ TimeUnchanged

ApplyTimeDecay ==
    /\ nops = 0
    /\ nops' = 1
    /\ clock' = TimeNow
    /\ \E timestamp \in DictInputs :
         last' = [op |-> "apply_time_decay", quintuple |-> timestamp.value,
                  ret |-> apply_time_decay(timestamp.value, TimeNow)]
    /\ TimeUnchanged

NextTime ==
    \/ FilterByTimeWindow
    \/ GetRecentQuintuples
    \/ CalculateTimeDecayFactor
    \/ ApplyTimeDecay

SpecTime == InitTime /\ [][NextTime]_vars

----------------------------------------------------------------------------
(* query_quintuples_by_keywords: the file-based keyword query              *)

\* kw in text, on strings
Contains(kw, text) ==
    \E i \in 0 .. (Len(text) - Len(kw)) : SubSeq(text, i + 1, i + Len(kw)) = kw

\* the keyword test of one quintuple: any keyword is a substring of one of
\* the five text fields
KeywordMatched(keywords, quintuple) ==
    \E k \in 1 .. Len(keywords) :
        \/ Contains(keywords[k], quintuple.subject)
        \/ Contains(keywords[k], quintuple.subject_type)
        \/ Contains(keywords[k], quintuple.predicate)
        \/ Contains(keywords[k], quintuple.object)
        \/ Contains(keywords[k], quintuple.object_type)

\* quintuple.copy() with the decayed_importance entry added
WithDecay(quintuple, decayed_importance) ==
    quintuple @@ [decayed_importance |-> decayed_importance]

RECURSIVE query_from(_, _, _, _, _, _)
query_from(all_quintuples, i, keywords, memory_types, importance_threshold, now) ==
    IF i > Len(all_quintuples) THEN <<>>
    ELSE \* thresholds are in tenths, the decayed importance in ten-thousandths
         LET quintuple == all_quintuples[i]
             rest == query_from(all_quintuples, i + 1, keywords, memory_types,
                                importance_threshold, now)
         IN IF ~KeywordMatched(keywords, quintuple) THEN rest
            ELSE IF memory_types # {} /\ quintuple.memory_type \notin memory_types THEN rest
            ELSE TheOne({IF importance_threshold > 0 /\ d < 1000 * importance_threshold
                         THEN rest
                         ELSE <<WithDecay(quintuple, d)>> \o rest :
                         d \in {apply_time_decay(quintuple, now)}})

\* memory_types and time_window are sets: {} for None
query_quintuples_by_keywords(master, keywords, memory_types, importance_threshold, time_window, now) ==
    query_from(IF time_window # {}
               THEN filter_by_time_window(master, time_window, {}, {}, now)
               ELSE master,
               1, keywords, memory_types, importance_threshold, now)

----------------------------------------------------------------------------
(* quintuple_extractor: extract_quintuples and extract_quintuples_async.   *)
(* The oracle (the LLM client) is a nondeterministic choice of the outcome *)
(* of each call; a thread's record holds the position and the locals of    *)
(* the extraction it runs.                                                 *)

structured_max_retries == 1
fallback_max_retries == 2

important_entities == {<<"P">>, <<"O">>, <<"E">>}
important_relations == {<<"i", "s">>, <<"h", "a", "s">>}

\* analyze_memory_importance, in tenths
analyze_memory_importance(quintuple, long_context) ==
    TheOne({IF score > 10 THEN 10 ELSE IF score < 0 THEN 0 ELSE score :
            score \in {5 + (IF quintuple[2] \in important_entities
                               \/ quintuple[5] \in important_entities THEN 2 ELSE 0)
                         + (IF quintuple[3] \in important_relations THEN 2 ELSE 0)
                         + (IF long_context THEN 1 ELSE 0)}})

\* the items a parsed answer can hold: 5-tuples, and items of another length
BasicItems ==
    {<<<<"a", "b">>, st, <<"p">>, <<"o", "a">>, <<"T">>>> : st \in {<<"T">>, <<"P">>}}
    \cup {<<<<"a", "b">>, <<"p">>, <<"o", "a">>>>}

StructuredAnswers == {<<>>} \cup {<<t>> : t \in {b \in BasicItems : Len(b) = 5}}
JsonAnswers == {<<t>> : t \in BasicItems} \cup {<<t, u>> : t, u \in BasicItems}

\* [tuple(t) for t in quintuples if len(t) == 5]
FiveTuples(quintuples) == SelectSeq(quintuples, LAMBDA t : Len(t) = 5)

\* the loop of extract_quintuples over basic_quintuples
enhance(basic_quintuples, session_id, now) ==
    [k \in 1 .. Len(basic_quintuples) |->
        [create_enhanced_quintuple(basic_quintuples[k][1], basic_quintuples[k][4], "fact",
                                   analyze_memory_importance(basic_quintuples[k], FALSE),
                                   session_id, now)
         EXCEPT !.subject_type = basic_quintuples[k][2],
                !.predicate = basic_quintuples[k][3],
                !.object_type = basic_quintuples[k][5]]]

ExtractFrame(op) ==
    [pc |-> "structured", op |-> op, attempt |-> 0, structured_calls |-> 0,
     fallback_calls |-> 0, all_raised |-> TRUE, slept |-> 0, ret |-> <<>>]

InitExtract ==
    /\ InitStorage
    /\ graph = "None"

ExtractUnchanged ==
    UNCHANGED <<extractor, memory_decision_maker, multi_modal_query_system, entity_disambiguator, files, memory_indices, quintuples_file, graph, graph_rels, last,
                inputs, manager, task_manager, loop_calls>>

\* extract_quintuples(text) / extract_quintuples_async(text) is called
CallExtract(th) ==
    /\ thr[th].pc \in {"idle", "extract_returned"}
    /\ nops < MaxOps
    /\ nops' = nops + 1
    /\ \E op \in {"extract_quintuples", "extract_quintuples_async"} :
         thr' = [thr EXCEPT ![th] = ExtractFrame(op)]
    /\ UNCHANGED clock
    /\ ExtractUnchanged

\* one pass of the loop of _extract_quintuples_structured: the call returns
\* a parsed answer, or raises and the loop is left by break
StructuredAttempt(th) ==
    /\ thr[th].pc = "structured"
    /\ thr[th].attempt <= structured_max_retries
    /\ \/ \E answer \in StructuredAnswers :
            thr' = [thr EXCEPT ![th] =
                       [@ EXCEPT !.pc = "extract_returned",
                                 !.structured_calls = @ + 1,
                                 !.all_raised = FALSE,
                                 !.ret = enhance(answer, th, clock)]]
       \/ thr' = [thr EXCEPT ![th] =
                     [@ EXCEPT !.pc = "fallback",
                               !.structured_calls = @ + 1,
                               !.attempt = 0]]
    /\ UNCHANGED <<clock, nops>>
    /\ ExtractUnchanged

\* one pass of the loop of _extract_quintuples_fallback: the call raises
\* (sleep, next pass), or the answer parses to a non-empty list, or the
\* array between the brackets parses to a list, or nothing parses (next pass)
FallbackAttempt(th) ==
    /\ thr[th].pc = "fallback"
    /\ thr[th].attempt <= fallback_max_retries
    /\ \/ /\ thr' = [thr EXCEPT ![th] =
                        [@ EXCEPT !.fallback_calls = @ + 1,
                                  !.attempt = @ + 1,
                                  !.slept = IF thr[th].attempt < fallback_max_retries
                                            THEN @ + (IF thr[th].op = "extract_quintuples"
                                                      THEN 1 ELSE 1 + thr[th].attempt)
                                            ELSE @]]
       \/ \E answer \in JsonAnswers \cup {<<>>} :
            thr' = [thr EXCEPT ![th] =
                       [@ EXCEPT !.pc = "extract_returned",
                                 !.fallback_calls = @ + 1,
                                 !.all_raised = FALSE,
                                 !.ret = enhance(FiveTuples(answer), th, clock)]]
       \/ thr' = [thr EXCEPT ![th] =
                     [@ EXCEPT !.fallback_calls = @ + 1,
                               !.all_raised = FALSE,
                               !.attempt = @ + 1]]
    /\ UNCHANGED <<clock, nops>>
    /\ ExtractUnchanged

\* the loop of _extract_quintuples_fallback is exhausted: return []
ReturnEmpty(th) ==
    /\ thr[th].pc = "fallback"
    /\ thr[th].attempt > fallback_max_retries
    /\ thr' = [thr EXCEPT ![th] = [@ EXCEPT !.pc = "extract_returned", !.ret = <<>>]]
    /\ UNCHANGED <<clock, nops>>
    /\ ExtractUnchanged

NextExtract ==
    \E th \in Threads :
        \/ CallExtract(th)
        \/ StructuredAttempt(th)
        \/ FallbackAttempt(th)
        \/ ReturnEmpty(th)

SpecExtract == InitExtract /\ [][NextExtract]_vars

----------------------------------------------------------------------------
(* memory_decision: MemoryDecisionMaker.decide_memory_query and            *)
(* decide_memory_generation.  The oracle is a nondeterministic choice of   *)
(* the outcome of each call; a record of thr holds the position and the    *)
(* locals of the coroutine that decides.                                   *)

decision_structured_max_retries == 1
decision_fallback_max_retries == 2

\* user_question.replace("？", "").replace("?", "")
WithoutQuestionMarks(text) == SelectSeq(text, LAMBDA c : c # "?")

\* str.split(): the maximal runs of non-space characters
RECURSIVE SplitFrom(_, _, _, _)
SplitFrom(text, i, word, words) ==
    IF i > Len(text)
    THEN IF word = <<>> THEN words ELSE Append(words, word)
    ELSE IF IsSpace(text[i])
         THEN SplitFrom(text, i + 1, <<>>, IF word = <<>> THEN words ELSE Append(words, word))
         ELSE SplitFrom(text, i + 1, Append(word, text[i]), words)

Split(text) == SplitFrom(text, 1, <<>>, <<>>)

\* s[:n]
Prefix(s, n) == SubSeq(s, 1, IF Len(s) < n THEN Len(s) ELSE n)

\* the keyword extraction shared by _simple_query_decision (8, 2) and the
\* last resort of _decide_memory_query_fallback (10, 3)
rule_keywords(user_question, word_len, count) ==
    TheOne({IF keywords # <<>> THEN keywords
            ELSE IF user_question # <<>> THEN <<Prefix(user_question, word_len)>>
            ELSE <<<<"default">>>> :
            keywords \in {IF Len(user_question) > 0
                          THEN Prefix([k \in 1 .. Len(Split(WithoutQuestionMarks(user_question))) |->
                                          Prefix(Split(WithoutQuestionMarks(user_question))[k], word_len)],
                                      count)
                          ELSE <<>>}})

MemoryQueryDecision(should_query, query_keywords, memory_types, query_reason, confidence) ==
    [class |-> "MemoryQueryDecision", should_query |-> should_query,
     query_keywords |-> query_keywords, memory_types |-> memory_types,
     query_reason |-> query_reason, confidence |-> confidence]

MemoryGenerationDecision(should_store, memory_type, importance_score, key_entities, storage_reason, confidence) ==
    [class |-> "MemoryGenerationDecision", should_store |-> should_store,
     memory_type |-> memory_type, importance_score |-> importance_score,
     key_entities |-> key_entities, storage_reason |-> storage_reason,
     confidence |-> confidence]

\* confidences and scores in tenths
_simple_query_decision(user_question) ==
    MemoryQueryDecision(Len(user_question) >= 2, rule_keywords(user_question, 8, 2),
                        <<"fact">>, "simple", 7)

default_query_decision(user_question) ==
    MemoryQueryDecision(Len(user_question) >= 3, rule_keywords(user_question, 10, 3),
                        <<"fact">>, "default", 6)

default_generation_decision(user_question, ai_response) ==
    MemoryGenerationDecision(Len(user_question) > 5 /\ Len(ai_response) > 10, "fact", 5,
                             <<Prefix(user_question, 10)>>, "default", 5)

disabled_query_decision == MemoryQueryDecision(FALSE, <<>>, <<>>, "disabled", 0)
disabled_generation_decision == MemoryGenerationDecision(FALSE, "fact", 0, <<>>, "disabled", 0)

Questions ==
    {<<>>, <<"a", "b">>, <<"a", "b", " ", "c", "d", "?">>,
     <<"a", "b", "c", "d", "e", "f", "g", "h", "i", "j", "k", "l">>}

Responses == {<<"o", "k">>, <<"a", "b", "c", "d", "e", "f", "g", "h", "i", "j", "k">>}

\* what the oracle can answer with, when its answer is a decision
OracleDecisions(op) ==
    IF op = "decide_memory_query"
    THEN {MemoryQueryDecision(s, <<<<"a", "b">>>>, <<"fact">>, "oracle", 8) : s \in BOOLEAN}
    ELSE {MemoryGenerationDecision(s, mt, 8, <<<<"a", "b">>>>, "oracle", 8) :
             s \in BOOLEAN, mt \in {"fact", "emotion"}}

\* the outcomes of the structured call: a parsed decision, a completion
\* whose parsed field is None, an exception
StructuredOutcomes(op) ==
    {[kind |-> "parsed", result |-> d] : d \in OracleDecisions(op)}
    \cup {[kind |-> k, result |-> disabled_query_decision] : k \in {"parsed_none", "raise"}}

\* the outcomes of the fallback call: valid JSON of the schema, text that is
\* no JSON, JSON that is not of the schema, an exception
FallbackAnswers(op) ==
    {[kind |-> "valid", result |-> d] : d \in OracleDecisions(op)}
    \cup {[kind |-> k, result |-> disabled_query_decision] :
             k \in {"not_json", "schema_invalid", "raise"}}

DecideFrame(op, user_question, ai_response) ==
    [pc |-> "structured", op |-> op, user_question |-> user_question,
     ai_response |-> ai_response, attempt |-> 0, structured_calls |-> 0,
     fallback_calls |-> 0, failures |-> 0, ret |-> disabled_query_decision]

\* one pass of the loop of _decide_memory_*_structured; reading a field of
\* a None result raises inside the try; an exception leaves the loop by
\* break and the fallback is called
structured_step(frame, outcome) ==
    IF outcome.kind = "parsed"
    THEN [frame EXCEPT !.pc = "decide_returned", !.structured_calls = @ + 1,
                       !.ret = outcome.result]
    ELSE [frame EXCEPT !.pc = "fallback", !.structured_calls = @ + 1,
                       !.failures = @ + 1, !.attempt = 0]

\* the loop body with an except clause for json.JSONDecodeError only
fallback_step_decode_only(frame, outcome) ==
    IF outcome.kind = "valid"
    THEN [frame EXCEPT !.pc = "decide_returned", !.fallback_calls = @ + 1,
                       !.ret = outcome.result]
    ELSE IF outcome.kind = "not_json"
    THEN [frame EXCEPT !.fallback_calls = @ + 1, !.failures = @ + 1, !.attempt = @ + 1]
    ELSE [frame EXCEPT !.pc = "decide_raised", !.fallback_calls = @ + 1]

\* one pass of the loop of _decide_memory_*_fallback: every exception
\* (the call's, json.loads', the constructor's) is caught by the loop
fallback_step(frame, outcome) ==
    IF outcome.kind = "valid"
    THEN [frame EXCEPT !.pc = "decide_returned", !.fallback_calls = @ + 1,
                       !.ret = outcome.result]
    ELSE [frame EXCEPT !.fallback_calls = @ + 1, !.failures = @ + 1, !.attempt = @ + 1]

\* after the loop of the fallback: the rule-based decision
default_step(frame) ==
    [frame EXCEPT !.pc = "decide_returned",
                  !.ret = IF frame.op = "decide_memory_query"
                          THEN default_query_decision(frame.user_question)
                          ELSE default_generation_decision(frame.user_question,
                                                           frame.ai_response)]

InitDecide ==
    /\ clock = 0
    /\ files = [t \in MemoryType |-> <<>>]
    /\ memory_indices = [t \in MemoryType |-> EmptyIndex]
    /\ quintuples_file = <<>>
    /\ graph = "None"
    /\ graph_rels = {}
    /\ last = [op |-> "init"]
    /\ inputs = {}
    /\ thr = [th \in Threads |-> IdleThread]
    /\ manager = NewManager(TRUE, TRUE)
    /\ task_manager = NewTaskManager
    /\ loop_calls = <<>>
    /\ extractor = NewExtractor
    /\ memory_decision_maker \in {[enabled |-> e] : e \in BOOLEAN}
    /\ multi_modal_query_system = NewQuerySystem
    /\ entity_disambiguator = NewDisambiguator
    /\ nops = 0

DecideUnchanged ==
    UNCHANGED <<extractor, clock, files, memory_indices, quintuples_file, graph, graph_rels, last,
                inputs, manager, task_manager, loop_calls, memory_decision_maker, multi_modal_query_system, entity_disambiguator>>

DecideMemoryQuery(th) ==
    /\ thr[th].pc \in {"idle", "decide_returned"}
    /\ nops < MaxDecisions
    /\ nops' = nops + 1
    /\ \E user_question \in Questions :
         thr' = [thr EXCEPT ![th] =
                    TheOne({IF ~memory_decision_maker.enabled
                            THEN [f EXCEPT !.pc = "decide_returned",
                                           !.ret = disabled_query_decision]
                            ELSE IF Len(user_question) <= 5
                            THEN [f EXCEPT !.pc = "decide_returned",
                                           !.ret = _simple_query_decision(user_question)]
                            ELSE f :
                            f \in {DecideFrame("decide_memory_query", user_question, <<>>)}})]
    /\ DecideUnchanged

DecideMemoryGeneration(th) ==
    /\ thr[th].pc \in {"idle", "decide_returned"}
    /\ nops < MaxDecisions
    /\ nops' = nops + 1
    /\ \E user_question \in Questions, ai_response \in Responses :
         thr' = [thr EXCEPT ![th] =
                    TheOne({IF ~memory_decision_maker.enabled
                            THEN [f EXCEPT !.pc = "decide_returned",
                                           !.ret = disabled_generation_decision]
                            ELSE f :
                            f \in {DecideFrame("decide_memory_generation", user_question,
                                               ai_response)}})]
    /\ DecideUnchanged

DecideStructured(th) ==
    /\ thr[th].pc = "structured"
    /\ thr[th].op \in {"decide_memory_query", "decide_memory_generation"}
    /\ thr[th].attempt <= decision_structured_max_retries
    /\ \E outcome \in StructuredOutcomes(thr[th].op) :
         thr' = [thr EXCEPT ![th] = structured_step(@, outcome)]
    /\ UNCHANGED nops
    /\ DecideUnchanged

DecideFallback(th) ==
    /\ thr[th].pc = "fallback"
    /\ thr[th].op \in {"decide_memory_query", "decide_memory_generation"}
    /\ thr[th].attempt <= decision_fallback_max_retries
    /\ \E outcome \in FallbackAnswers(thr[th].op) :
         thr' = [thr EXCEPT ![th] = fallback_step(@, outcome)]
    /\ UNCHANGED nops
    /\ DecideUnchanged

DecideDefault(th) ==
    /\ thr[th].pc = "fallback"
    /\ thr[th].op \in {"decide_memory_query", "decide_memory_generation"}
    /\ thr[th].attempt > decision_fallback_max_retries
    /\ thr' = [thr EXCEPT ![th] = default_step(@)]
    /\ UNCHANGED nops
    /\ DecideUnchanged

NextDecide ==
    \E th \in Threads :
        \/ DecideMemoryQuery(th)
        \/ DecideMemoryGeneration(th)
        \/ DecideStructured(th)
        \/ DecideFallback(th)
        \/ DecideDefault(th)

SpecDecide == InitDecide /\ [][NextDecide]_vars

----------------------------------------------------------------------------
(* intelligent_memory_extractor: the analysis of a query.                  *)
(* A query is a sequence of characters; a Chinese character is written as  *)
(* its pinyin with a tone digit where two characters share the syllable    *)
(* (shi2 = 时, shi4 = 是, he2 = 何, he5 = 和, ...).                          *)

\* any(word in text for word in words)
AnyContains(words, text) == \E w \in words : Contains(w, text)

Digits == {"0", "1", "2", "3", "4", "5", "6", "7", "8", "9"}
IsDigit(c) == c \in Digits

\* the word lists of _classify_query_type
temporal_words ==
    {<<"shen2", "me", "shi2", "hou4">>, <<"he2", "shi2">>, <<"duo", "jiu">>,
     <<"zui", "jin4">>, <<"jin1", "tian">>, <<"zuo2", "tian">>}
emotional_words ==
    {<<"gan", "jue">>, <<"xi", "huan">>, <<"tao", "yan">>, <<"kai", "xin">>,
     <<"nan", "guo">>}
procedural_words ==
    {<<"ru", "he2">>, <<"zen", "me">>, <<"bu4", "zhou">>, <<"guo", "cheng">>,
     <<"fang", "fa">>}
meta_words ==
    {<<"guan", "yu2">>, <<"shi4", "shen2", "me">>, <<"wei", "shen2", "me">>,
     <<"jie", "shi5">>, <<"zong", "jie2">>}
relational_words ==
    {<<"guan", "xi4">>, <<"lian", "xi4">>, <<"guan", "lian">>, <<"he5">>, <<"yu3">>}

\* self.temporal_patterns: three regular expressions
temporal_pattern_words ==
    {<<"zui", "jin4">>, <<"jin1", "tian">>, <<"zuo2", "tian">>, <<"ming", "tian">>,
     <<"qian", "tian">>, <<"hou5", "tian">>, <<"shang", "zhou1">>, <<"xia", "zhou1">>,
     <<"shang", "ge", "yue">>, <<"xia", "ge", "yue">>, <<"qu", "nian">>,
     <<"jin1", "nian">>}
ago_suffixes ==
    {<<"xiao", "shi2", "qian">>, <<"tian", "qian">>, <<"zhou1", "qian">>,
     <<"yue", "qian">>, <<"nian", "qian">>}

\* \d+ followed by one of the suffixes: a digit directly before the suffix
DigitsThen(suffixes, text) ==
    \E i \in 1 .. Len(text) :
        /\ IsDigit(text[i])
        /\ \E s \in suffixes : SubSeq(text, i + 1, i + Len(s)) = s /\ i + Len(s) <= Len(text)

\* \d{4}年
FourDigitsThenYear(text) ==
    \E i \in 1 .. (Len(text) - 4) :
        /\ \A k \in i .. (i + 3) : IsDigit(text[k])
        /\ text[i + 4] = "nian"

temporal_patterns_match(query) ==
    \/ AnyContains(temporal_pattern_words, query)
    \/ DigitsThen(ago_suffixes, query)
    \/ FourDigitsThenYear(query)
    \/ DigitsThen({<<"yue">>, <<"ri">>}, query)

\* self.emotional_patterns: two regular expressions
emotional_pattern_1 ==
    {<<"xi", "huan">>, <<"tao", "yan">>, <<"ai">>, <<"hen">>, <<"kai", "xin">>,
     <<"nan", "guo">>, <<"fen", "nu">>, <<"hai", "pa">>, <<"man", "yi4">>,
     <<"shi1", "wang">>}
emotional_pattern_2 ==
    {<<"gan", "jue">>, <<"jue", "de2">>, <<"ren", "wei">>, <<"yi", "wei">>,
     <<"xiang">>, <<"xi1", "wang">>}

\* self.importance_patterns: three regular expressions
importance_pattern_words ==
    {<<"zhong", "yao">>, <<"guan", "jian">>, <<"he3", "xin">>, <<"zhu", "yao">>,
     <<"shou", "yao">>, <<"bi", "yao">>, <<"xiang2", "xi5">>, <<"ju", "ti">>,
     <<"quan", "mian">>, <<"wan", "zheng">>, <<"jian3", "dan1">>, <<"da", "gai">>,
     <<"ji", "ben">>, <<"yi1", "ban">>}

stop_words ==
    {<<"de">>, <<"le">>, <<"shi4">>, <<"zai">>, <<"you">>, <<"he5">>, <<"yu3">>,
     <<"huo">>, <<"dan">>, <<"ru", "guo3">>, <<"yin", "wei">>, <<"suo", "yi">>,
     <<"zhe", "ge">>, <<"na", "ge">>}

\* query.lower(), then re.sub(r'[^\w\s]', '', ...)
Lower(text) == [i \in 1 .. Len(text) |-> LowerChar(text[i])]
WordCharsOnly(text) == SelectSeq(text, LAMBDA c : c \notin Punctuation)

\* _extract_keywords: list(set(words)), as the set
_extract_keywords(query) ==
    {w \in Range(Split(WordCharsOnly(Lower(query)))) : w \notin stop_words /\ Len(w) > 1}

\* re.findall(r'[一-龯]{2,4}', query): from the left, the longest run of at
\* most four ideographs, taken when it has two or more
IsIdeograph(c) == ~IsSpace(c) /\ ~IsDigit(c) /\ c \notin Punctuation

RECURSIVE RunOfIdeographs(_, _, _)
RunOfIdeographs(text, i, most) ==
    IF most = 0 \/ i > Len(text) \/ ~IsIdeograph(text[i]) THEN 0
    ELSE 1 + RunOfIdeographs(text, i + 1, most - 1)

RECURSIVE FindNames(_, _)
FindNames(text, i) ==
    IF i > Len(text) THEN {}
    ELSE TheOne({IF run >= 2
                 THEN {SubSeq(text, i, i + run - 1)} \cup FindNames(text, i + run)
                 ELSE FindNames(text, i + 1) :
                 run \in {RunOfIdeographs(text, i, 4)}})

\* _extract_entities, as the set (the input universe has no Latin words)
_extract_entities(query) == FindNames(query, 1)

\* int(match.group(1)) of the leftmost (\d+)小时前
RECURSIVE ToNumber(_)
ToNumber(digits) ==
    IF digits = <<>> THEN 0
    ELSE 10 * ToNumber(SubSeq(digits, 1, Len(digits) - 1))
         + (CHOOSE n \in 0 .. 9 : ToString(n) = digits[Len(digits)])

HoursAgoMatches(query) ==
    {<<i, j>> \in (1 .. Len(query)) \X (1 .. Len(query)) :
        /\ i <= j
        /\ \A k \in i .. j : IsDigit(query[k])
        /\ j + 3 <= Len(query)
        /\ SubSeq(query, j + 1, j + 3) = <<"xiao", "shi2", "qian">>}

\* _extract_time_constraints: {} for None
_extract_time_constraints(query) ==
    IF ~temporal_patterns_match(query) THEN {}
    ELSE IF Contains(<<"zui", "jin4">>, query) THEN {[type |-> "recent", value |-> 24]}
    ELSE IF Contains(<<"jin1", "tian">>, query) THEN {[type |-> "today", value |-> 0]}
    ELSE IF Contains(<<"zuo2", "tian">>, query) THEN {[type |-> "yesterday", value |-> 0]}
    ELSE IF Contains(<<"xiao", "shi2", "qian">>, query) /\ HoursAgoMatches(query) # {}
    THEN {[type |-> "hours_ago",
           value |-> ToNumber(SubSeq(query, m[1], m[2]))] :
             m \in {CHOOSE m \in HoursAgoMatches(query) :
                        \A n \in HoursAgoMatches(query) : m[1] <= n[1]}}
    ELSE {}

\* _extract_importance_threshold, in tenths
_extract_importance_threshold(query) ==
    IF ~AnyContains(importance_pattern_words, query) THEN 5
    ELSE IF AnyContains({<<"zhong", "yao">>, <<"guan", "jian">>, <<"he3", "xin">>}, query) THEN 8
    ELSE IF AnyContains({<<"xiang2", "xi5">>, <<"ju", "ti">>, <<"quan", "mian">>}, query) THEN 6
    ELSE IF AnyContains({<<"jian3", "dan1">>, <<"da", "gai">>, <<"ji", "ben">>}, query) THEN 3
    ELSE 5

\* _infer_memory_types: list(set(memory_types)), as the set
_infer_memory_types(query) ==
    {"fact"}
    \cup (IF AnyContains(emotional_pattern_1 \cup emotional_pattern_2, query)
          THEN {"emotion"} ELSE {})
    \cup (IF AnyContains(procedural_words, query) THEN {"process"} ELSE {})
    \cup (IF AnyContains({<<"guan", "yu2">>, <<"shi4", "shen2", "me">>,
                          <<"wei", "shen2", "me">>, <<"jie", "shi5">>}, query)
          THEN {"meta"} ELSE {})

\* the classification with the emotional test made first
_classify_query_type_emotional_first(query) ==
    IF AnyContains(emotional_words, Lower(query)) THEN "emotional"
    ELSE IF AnyContains(temporal_words, Lower(query)) THEN "temporal"
    ELSE IF AnyContains(procedural_words, Lower(query)) THEN "procedural"
    ELSE IF AnyContains(meta_words, Lower(query)) THEN "meta"
    ELSE IF AnyContains(relational_words, Lower(query)) THEN "relational"
    ELSE "factual"

_classify_query_type(query) ==
    IF AnyContains(temporal_words, Lower(query)) THEN "temporal"
    ELSE IF AnyContains(emotional_words, Lower(query)) THEN "emotional"
    ELSE IF AnyContains(procedural_words, Lower(query)) THEN "procedural"
    ELSE IF AnyContains(meta_words, Lower(query)) THEN "meta"
    ELSE IF AnyContains(relational_words, Lower(query)) THEN "relational"
    ELSE "factual"

QueryType ==
    {"factual", "temporal", "relational", "emotional", "procedural", "meta",
     "comprehensive"}

_determine_extraction_strategy(query_type, keywords, time_constraints) ==
    IF query_type = "temporal" THEN "time_based"
    ELSE IF query_type = "emotional" THEN "type_based"
    ELSE IF query_type = "procedural" THEN "type_based"
    ELSE IF time_constraints # {} THEN "hybrid"
    ELSE IF Cardinality(keywords) <= 2 THEN "semantic_search"
    ELSE "keyword_based"

\* _calculate_analysis_confidence, in tenths
_calculate_analysis_confidence(query_type, keywords, entities, time_constraints) ==
    TheOne({IF confidence < 10 THEN confidence ELSE 10 :
            confidence \in {5 + (IF Cardinality(keywords) >= 2 THEN 2 ELSE 0)
                              + (IF entities # {} THEN 2 ELSE 0)
                              + (IF time_constraints # {} THEN 1 ELSE 0)}})

\* the QueryAnalysis that analyze_query builds
QueryAnalysis(query) ==
    TheOne({[query_type |-> query_type, keywords |-> keywords, entities |-> entities,
             time_constraints |-> time_constraints,
             importance_threshold |-> _extract_importance_threshold(query),
             memory_types |-> _infer_memory_types(query),
             extraction_strategy |->
                 _determine_extraction_strategy(query_type, keywords, time_constraints),
             confidence |->
                 _calculate_analysis_confidence(query_type, keywords, entities,
                                                time_constraints)] :
            query_type \in {_classify_query_type(query)},
            keywords \in {_extract_keywords(query)},
            entities \in {_extract_entities(query)},
            time_constraints \in {_extract_time_constraints(query)}})

\* analyze_query as a function of the state
analyze_query(ex, query, now) ==
    TheOne({[extractor |-> [ex EXCEPT !.query_history =
                                          Append(@, [timestamp |-> now, query |-> query,
                                                     analysis |-> analysis])],
             analysis |-> analysis] :
            analysis \in {QueryAnalysis(query)}})

----------------------------------------------------------------------------
(* The analysis specification: one query analysed, or one strategy         *)
(* determined, per behaviour.                                              *)

MaxWords == 3

Vocabulary ==
    {<<"zui", "jin4">>, <<"xi", "huan">>, <<"ru", "he2">>, <<"guan", "yu2">>,
     <<"he5">>, <<"ni", "men">>, <<"zuo4", "le">>, <<"ming", "tian">>,
     <<"3", "xiao", "shi2", "qian">>}

Separators == {<<>>, <<" ">>}

RECURSIVE QueriesOf(_)
QueriesOf(n) ==
    IF n = 1 THEN Vocabulary
    ELSE {q \o s \o w : q \in QueriesOf(n - 1), s \in Separators, w \in Vocabulary}

Queries == UNION {QueriesOf(n) : n \in 1 .. MaxWords}

KeywordSets == {{<<"k", ToString(i)>> : i \in 1 .. n} : n \in 0 .. 4}

TimeConstraints ==
    {{}, {[type |-> "recent", value |-> 24]}, {[type |-> "today", value |-> 0]}}

AnalyzeUnchanged ==
    UNCHANGED <<clock, files, memory_indices, quintuples_file, graph, graph_rels,
                inputs, thr, manager, task_manager, loop_calls, memory_decision_maker, multi_modal_query_system, entity_disambiguator>>

AnalyzeQuery ==
    /\ nops = 0
    /\ nops' = 1
    /\ \E query \in Queries :
         \E a \in {analyze_query(extractor, query, clock)} :
             /\ extractor' = a.extractor
             /\ last' = [op |-> "analyze_query", query |-> query, analysis |-> a.analysis]
    /\ AnalyzeUnchanged

DetermineExtractionStrategy ==
    /\ nops = 0
    /\ nops' = 1
    /\ \E query_type \in QueryType, keywords \in KeywordSets,
          time_constraints \in TimeConstraints :
         last' = [op |-> "_determine_extraction_strategy", query_type |-> query_type,
                  keywords |-> keywords, time_constraints |-> time_constraints,
                  ret |-> _determine_extraction_strategy(query_type, keywords,
                                                         time_constraints)]
    /\ UNCHANGED extractor
    /\ AnalyzeUnchanged

NextAnalyze == AnalyzeQuery \/ DetermineExtractionStrategy

SpecAnalyze == Init /\ [][NextAnalyze]_vars

----------------------------------------------------------------------------
(* intelligent_memory_extractor: extract_memories and its strategies.      *)

\* the orders in which list(set(...)) can enumerate a set
Orderings(S) == {s \in [1 .. Cardinality(S) -> S] : Range(s) = S}

\* sorted(..., reverse=True) of <<item, key>> pairs by key: stable
RECURSIVE InsertPairDesc(_, _)
InsertPairDesc(sorted, x) ==
    IF sorted = <<>> THEN <<x>>
    ELSE IF Head(sorted)[2] >= x[2] THEN <<Head(sorted)>> \o InsertPairDesc(Tail(sorted), x)
    ELSE <<x>> \o sorted

RECURSIVE SortPairsDesc(_)
SortPairsDesc(pairs) ==
    IF pairs = <<>> THEN <<>>
    ELSE InsertPairDesc(SortPairsDesc(SubSeq(pairs, 1, Len(pairs) - 1)), pairs[Len(pairs)])

Items(pairs) == [i \in 1 .. Len(pairs) |-> pairs[i][1]]

\* TimeAxisManager.sort_by_time(quintuples, ascending=False)
sort_by_time(quintuples, now) ==
    Items(SortPairsDesc([i \in 1 .. Len(quintuples) |->
                            <<quintuples[i], _get_timestamp_from_quintuple(quintuples[i], now)>>]))

\* TimeAxisManager.get_memory_timeline; age_hours in whole hours
time_axis_get_memory_timeline(quintuples, time_window, now) ==
    TheOne({sort_by_time([i \in 1 .. Len(filtered) |->
                             filtered[i] @@
                             [decayed_importance |-> apply_time_decay(filtered[i], now),
                              age_hours |-> (now - _get_timestamp_from_quintuple(filtered[i], now))
                                            \div 3600]],
                         now) :
            filtered \in {filter_by_time_window(quintuples, time_window, {}, {}, now)}})

\* quintuple_graph.get_memory_timeline; keywords a sequence, memory_types a set
get_memory_timeline(master, keywords, memory_types, time_window, now) ==
    time_axis_get_memory_timeline(
        SelectSeq(master,
                  LAMBDA q : /\ keywords # <<>> => KeywordMatched(keywords, q)
                             /\ memory_types # {} => q.memory_type \in memory_types),
        time_window, now)

\* TypedMemoryStorage.get_memories_by_type(memory_type, min_importance=...)
get_memories_by_type(fs, memory_type, min_importance) ==
    SortedByImportance(SelectSeq(fs[memory_type],
                                 LAMBDA m : m.importance_score >= min_importance))

\* TypedMemoryStorage.get_memories_by_types; the types in the order of types
RECURSIVE all_memories_from(_, _, _, _)
all_memories_from(fs, types, i, min_importance) ==
    IF i > Len(types) THEN <<>>
    ELSE get_memories_by_type(fs, types[i], min_importance)
         \o all_memories_from(fs, types, i + 1, min_importance)

get_memories_by_types(fs, types, min_importance) ==
    SortedByImportance(all_memories_from(fs, types, 1, min_importance))

\* quintuple_graph.get_typed_memories; memory_types a set, {} for None
get_typed_memories(fs, memory_types, min_importance) ==
    get_memories_by_types(fs,
                          SelectSeq(TypeOrder,
                                    LAMBDA t : memory_types = {} \/ t \in memory_types),
                          min_importance)

\* the synonyms of _expand_keywords_semantically
synonyms(keyword) ==
    CASE keyword = <<"xue", "xi2">> ->
             {<<"xue", "xi2">>, <<"yan2", "jiu1">>, <<"zhang", "wo">>, <<"le", "jie">>}
      [] keyword = <<"gong", "zuo1">> ->
             {<<"gong", "zuo1">>, <<"shang", "ban1">>, <<"zhi", "ye">>, <<"shi6", "ye">>}
      [] keyword = <<"xi", "huan">> ->
             {<<"xi", "huan">>, <<"ai", "hao">>, <<"re", "ai">>, <<"gan", "xing", "qu4">>}
      [] keyword = <<"zhong", "yao">> ->
             {<<"zhong", "yao">>, <<"guan", "jian">>, <<"he3", "xin">>, <<"zhu", "yao">>}
      [] OTHER -> {}

\* _expand_keywords_semantically: list(set(expanded)), as the set
_expand_keywords_semantically(keywords) ==
    keywords \cup UNION {synonyms(k) : k \in keywords}

\* the first quintuple of every (subject, predicate, object) key
RECURSIVE unique_from(_, _, _)
unique_from(quintuples, i, seen) ==
    IF i > Len(quintuples) THEN <<>>
    ELSE TheOne({IF key \in seen THEN unique_from(quintuples, i + 1, seen)
                 ELSE <<quintuples[i]>> \o unique_from(quintuples, i + 1, seen \cup {key}) :
                 key \in {<<quintuples[i].subject, quintuples[i].predicate,
                            quintuples[i].object>>}})

_deduplicate_quintuples(quintuples) == unique_from(quintuples, 1, {})

\* a keyword list for a set of keywords whose order does not matter
AnyOrder(S) == CHOOSE s \in Orderings(S) : TRUE

_extract_keyword_based(master, analysis, now) ==
    query_quintuples_by_keywords(master, AnyOrder(analysis.keywords), analysis.memory_types,
                                 analysis.importance_threshold, {}, now)

\* expanded: the expanded keywords in the order the loop takes them
RECURSIVE semantic_from(_, _, _, _, _)
semantic_from(master, expanded, i, analysis, now) ==
    IF i > Len(expanded) THEN <<>>
    ELSE query_quintuples_by_keywords(master, <<expanded[i]>>, analysis.memory_types,
                                      analysis.importance_threshold, {}, now)
         \o semantic_from(master, expanded, i + 1, analysis, now)

_extract_semantic_search(master, expanded, analysis, now) ==
    _deduplicate_quintuples(semantic_from(master, expanded, 1, analysis, now))

_extract_time_based(master, analysis, now) ==
    get_memory_timeline(master, AnyOrder(analysis.keywords), analysis.memory_types,
                        {c.value * 3600 : c \in {c \in analysis.time_constraints :
                                                    c.type \in {"recent", "hours_ago"}}},
                        now)

_extract_importance_based(master, analysis, now) ==
    SortedByImportance(_extract_keyword_based(master, analysis, now))

_extract_type_based(fs, analysis) ==
    get_typed_memories(fs, analysis.memory_types, analysis.importance_threshold)

_extract_hybrid(fs, master, analysis, now) ==
    _deduplicate_quintuples(_extract_keyword_based(master, analysis, now)
                            \o _extract_type_based(fs, analysis))

_get_timestamp_value(quintuple, now) == _get_timestamp_from_quintuple(quintuple, now)

\* the time decay of _calculate_relevance_scores, in thousandths
time_decay_of(quintuple, now) ==
    TheOne({IF decay > 100 THEN decay ELSE 100 :
            decay \in {1000 - (1000 * (now - _get_timestamp_value(quintuple, now)))
                              \div half_life}})

\* one score of _calculate_relevance_scores, in units of 1 / (10000 * n) for
\* n keywords (n > 0)
relevance_score(quintuple, analysis, now) ==
    TheOne({TheOne({IF score < 10000 * n THEN score ELSE 10000 * n :
                    score \in {4000 * Cardinality({k \in analysis.keywords :
                                                      \/ Contains(k, quintuple.subject)
                                                      \/ Contains(k, quintuple.predicate)
                                                      \/ Contains(k, quintuple.object)})
                                 + 300 * n * quintuple.importance_score
                                 + (IF analysis.time_constraints # {}
                                    THEN 3 * n * time_decay_of(quintuple, now)
                                    ELSE 0)}}) :
            n \in {Cardinality(analysis.keywords)}})

found_by_strategy(fs, master, expanded, analysis, now) ==
    CASE analysis.extraction_strategy = "keyword_based" ->
             _extract_keyword_based(master, analysis, now)
      [] analysis.extraction_strategy = "semantic_search" ->
             _extract_semantic_search(master, expanded, analysis, now)
      [] analysis.extraction_strategy = "time_based" ->
             _extract_time_based(master, analysis, now)
      [] analysis.extraction_strategy = "importance_based" ->
             _extract_importance_based(master, analysis, now)
      [] analysis.extraction_strategy = "type_based" ->
             _extract_type_based(fs, analysis)
      [] analysis.extraction_strategy = "hybrid" ->
             _extract_hybrid(fs, master, analysis, now)
      [] OTHER -> <<>>

\* extract_memories as a function of the state; a division by the number of
\* keywords raises when there is no keyword and something was found
extract_memories(ex, fs, master, query, expanded, max_results, now) ==
    TheOne({IF quintuples # <<>> /\ a.analysis.keywords = {}
            THEN [extractor |-> a.extractor, raised |-> TRUE, quintuples |-> <<>>,
                  relevance_scores |-> <<>>, total_found |-> Len(quintuples)]
            ELSE TheOne({[extractor |->
                              [a.extractor EXCEPT !.performance_metrics =
                                                      Append(@, a.analysis.extraction_strategy)],
                          raised |-> FALSE,
                          quintuples |-> [i \in 1 .. Len(final) |-> final[i][1]],
                          relevance_scores |-> [i \in 1 .. Len(final) |-> final[i][2]],
                          total_found |-> Len(quintuples)] :
                         final \in {TheOne({SubSeq(sorted_results, 1,
                                                   IF Len(sorted_results) < max_results
                                                   THEN Len(sorted_results) ELSE max_results) :
                                            sorted_results \in
                                                {SortPairsDesc([i \in 1 .. Len(quintuples) |->
                                                     <<quintuples[i],
                                                       relevance_score(quintuples[i], a.analysis,
                                                                       now)>>])}})}}) :
            a \in {analyze_query(ex, query, now)},
            quintuples \in {found_by_strategy(fs, master, expanded,
                                              QueryAnalysis(query), now)}})

----------------------------------------------------------------------------
(* The retrieval specification: store_quintuples calls, then one           *)
(* extract_memories call on what they stored.                              *)

MaxQueries == 1

RetrievalQueries ==
    {<<"a", "c", " ", "o", "b", " ", "a", "b">>,
     <<"a", "c", " ", "o", "b">>,
     <<"zui", "jin4", " ", "a", "c">>,
     <<"xi", "huan", " ", "a", "c">>,
     <<"3", "xiao", "shi2", "qian", " ", "a", "c">>}

\* the orders in which _extract_semantic_search can take the expanded
\* keywords; no other strategy expands them
ExpandedOrders(query) ==
    IF QueryAnalysis(query).extraction_strategy = "semantic_search"
    THEN Orderings(_expand_keywords_semantically(_extract_keywords(query)))
    ELSE {<<>>}

ExtractMemories ==
    /\ Len(extractor.query_history) < MaxQueries
    /\ \E query \in RetrievalQueries, max_results \in {1, 10} :
         \E expanded \in ExpandedOrders(query) :
             \E r \in {extract_memories(extractor, files, quintuples_file, query, expanded,
                                        max_results, clock)} :
                 /\ extractor' = r.extractor
                 /\ last' = [op |-> "extract_memories", query |-> query,
                             max_results |-> max_results, raised |-> r.raised,
                             quintuples |-> r.quintuples,
                             relevance_scores |-> r.relevance_scores,
                             total_found |-> r.total_found]
    /\ UNCHANGED <<clock, files, memory_indices, quintuples_file, graph, graph_rels,
                   inputs, thr, manager, task_manager, loop_calls, memory_decision_maker, multi_modal_query_system, entity_disambiguator,
                   nops>>

NextRetrieve ==
    \/ extractor.query_history = <<>> /\ StoreQuintuples
    \/ ExtractMemories

\* the retrieval reads the files only: the graph backend is absent
InitRetrieve ==
    /\ InitStorage
    /\ graph = "None"

SpecRetrieve == InitRetrieve /\ [][NextRetrieve]_vars

----------------------------------------------------------------------------
(* multi_modal_query_system: MultiModalQuerySystem.search.                 *)
(* Relevance scores are in units of 1 / ScoreScale, thresholds in tenths.  *)

ScoreScale == 6000

SearchMode == {"keyword", "semantic", "graph", "hybrid", "fuzzy"}
QueryScope == {"subject", "predicate", "object", "full"}

QueryOptions(search_modes, scope, max_results, min_relevance, time_window, memory_types) ==
    [search_modes |-> search_modes, scope |-> scope, max_results |-> max_results,
     min_relevance |-> min_relevance, time_window |-> time_window,
     memory_types |-> memory_types, fuzzy_threshold |-> 7]

SearchResult(quintuple, score, match_type, search_mode, rank) ==
    [quintuple |-> quintuple, relevance_score |-> score,
     match_type |-> match_type, search_mode |-> search_mode, rank |-> rank]

query_stop_words ==
    stop_words \cup {<<"shen", "me">>, <<"zen", "me">>, <<"ru", "he2">>}

\* MultiModalQuerySystem._extract_keywords: list(set(words)), as the set
query_keywords(query) ==
    {w \in Range(Split(WordCharsOnly(Lower(query)))) : w \notin query_stop_words /\ Len(w) > 1}

query_synonyms(keyword) ==
    IF keyword = <<"xi4", "tong">>
    THEN {<<"ping", "tai">>, <<"kuang", "jia4">>, <<"jia4", "gou">>, <<"xi4", "tong">>}
    ELSE synonyms(keyword)

\* _semantic_expansion: list(set(expanded)), as the set
_semantic_expansion(query) ==
    query_keywords(query) \cup UNION {query_synonyms(k) : k \in query_keywords(query)}

AsciiUpper == {"A", "B", "C", "X", "T"}
AsciiLower == {"a", "b", "c", "o", "p", "x"}
IsWordChar(c) == ~IsSpace(c) /\ c \notin Punctuation /\ c # "*"
IsChinese(c) == IsWordChar(c) /\ ~IsDigit(c) /\ c \notin AsciiUpper \cup AsciiLower

RECURSIVE ChineseRun(_, _)
ChineseRun(text, i) ==
    IF i > Len(text) \/ ~IsChinese(text[i]) THEN 0 ELSE 1 + ChineseRun(text, i + 1)

\* re.findall(r'[一-鿿]{2,}', query)
RECURSIVE chinese_entities(_, _)
chinese_entities(text, i) ==
    IF i > Len(text) THEN {}
    ELSE TheOne({IF run >= 2
                 THEN {SubSeq(text, i, i + run - 1)} \cup chinese_entities(text, i + run)
                 ELSE chinese_entities(text, i + 1) :
                 run \in {ChineseRun(text, i)}})

\* re.findall(r'\b[A-Z][a-z]+\b', query)
english_entities(text) ==
    {SubSeq(text, p[1], p[2]) :
        p \in {p \in (1 .. Len(text)) \X (1 .. Len(text)) :
                  /\ p[1] < p[2]
                  /\ text[p[1]] \in AsciiUpper
                  /\ (p[1] = 1 \/ ~IsWordChar(text[p[1] - 1]))
                  /\ \A k \in (p[1] + 1) .. p[2] : text[k] \in AsciiLower
                  /\ (p[2] = Len(text) \/ ~IsWordChar(text[p[2] + 1]))}}

\* MultiModalQuerySystem._extract_entities: list(set(entities)), as the set
query_entities(query) == chinese_entities(query, 1) \cup english_entities(query)

\* _generate_fuzzy_patterns(query), the keywords in the order of keywords
RECURSIVE fuzzy_patterns_from(_, _)
fuzzy_patterns_from(keywords, i) ==
    IF i > Len(keywords) THEN <<>>
    ELSE (IF Len(keywords[i]) >= 2
          THEN << <<"*">> \o keywords[i] \o <<"*">>, keywords[i] \o <<"*">>,
                  <<"*">> \o keywords[i] >>
          ELSE <<>>)
         \o fuzzy_patterns_from(keywords, i + 1)

_generate_fuzzy_patterns(keywords) == fuzzy_patterns_from(keywords, 1)

Joined(a, b) == a \o <<" ">> \o b

keyword_searchable_text(quintuple) ==
    Lower(Joined(quintuple.subject,
          Joined(quintuple.predicate,
          Joined(quintuple.object,
          Joined(quintuple.subject_type, quintuple.object_type)))))

_calculate_keyword_relevance(quintuple, keywords) ==
    IF keywords = {} THEN 0
    ELSE TheOne({(ScoreScale * Cardinality({k \in keywords :
                                               Contains(Lower(k), searchable_text)}))
                 \div Cardinality(keywords) :
                 searchable_text \in {keyword_searchable_text(quintuple)}})

_calculate_semantic_relevance(quintuple, query) ==
    (_calculate_keyword_relevance(quintuple, query_keywords(query)) * 8) \div 10

_calculate_graph_relevance(quintuple, entities) ==
    IF entities = {} THEN 0
    ELSE (ScoreScale * Cardinality({e \in entities : \/ Contains(e, quintuple.subject)
                                                     \/ Contains(e, quintuple.object)}))
         \div Cardinality(entities)

\* _fuzzy_match with threshold 0.7
_fuzzy_match(word1, word2) ==
    \/ word1 = word2
    \/ TheOne({/\ max_len # 0
               /\ 10 * Cardinality(Range(word1) \cap Range(word2)) >= 7 * max_len :
               max_len \in {IF Len(word1) > Len(word2) THEN Len(word1) ELSE Len(word2)}})

_calculate_fuzzy_relevance(quintuple, query) ==
    IF query_keywords(query) = {} THEN 0
    ELSE TheOne({(ScoreScale * Cardinality({p \in query_keywords(query) \X (1 .. Len(text_words)) :
                                               _fuzzy_match(p[1], text_words[p[2]])}))
                 \div Cardinality(query_keywords(query)) :
                 text_words \in {Split(Joined(quintuple.subject,
                                       Joined(quintuple.predicate, quintuple.object)))}})

\* the quintuples of a list as results with their scores, those below the
\* threshold (in tenths) left out
RECURSIVE results_from(_, _, _, _, _)
results_from(quintuples, i, scores, threshold, mode) ==
    IF i > Len(quintuples) THEN <<>>
    ELSE (IF 10 * scores[i] >= ScoreScale * threshold
          THEN <<SearchResult(quintuples[i], scores[i], mode, mode, 0)>>
          ELSE <<>>)
         \o results_from(quintuples, i + 1, scores, threshold, mode)

_keyword_search(master, query, options, now) ==
    TheOne({results_from(quintuples, 1,
                         [i \in 1 .. Len(quintuples) |->
                             _calculate_keyword_relevance(quintuples[i], query_keywords(query))],
                         options.min_relevance, "keyword") :
            quintuples \in {query_quintuples_by_keywords(master, AnyOrder(query_keywords(query)),
                                options.memory_types, options.min_relevance,
                                options.time_window, now)}})

\* expanded_terms: the expanded terms in the order the loop takes them
RECURSIVE semantic_search_from(_, _, _, _, _, _)
semantic_search_from(master, query, expanded_terms, i, options, now) ==
    IF i > Len(expanded_terms) THEN <<>>
    ELSE TheOne({results_from(quintuples, 1,
                              [k \in 1 .. Len(quintuples) |->
                                  _calculate_semantic_relevance(quintuples[k], query)],
                              options.min_relevance, "semantic") :
                 quintuples \in {query_quintuples_by_keywords(master, <<expanded_terms[i]>>,
                                     options.memory_types, options.min_relevance,
                                     options.time_window, now)}})
         \o semantic_search_from(master, query, expanded_terms, i + 1, options, now)

_semantic_search(master, query, expanded_terms, options, now) ==
    semantic_search_from(master, query, expanded_terms, 1, options, now)

\* the rows of one keyword: the relationships with the keyword in a name or
\* in the relationship type, in the order the database gives them (the
\* model's relationships hold the three names only; every entity type of the
\* model is "T")
graph_rows(rels, kw) ==
    TheOne({[i \in 1 .. Len(rows) |->
                [subject |-> rows[i][1], subject_type |-> <<"T">>, predicate |-> rows[i][2],
                 object |-> rows[i][3], object_type |-> <<"T">>, timestamp |-> -1,
                 session_id |-> <<>>, memory_type |-> "fact", importance_score |-> 5]] :
            rows \in {AnyOrder({r \in rels : \/ Contains(kw, r[1]) \/ Contains(kw, r[2])
                                             \/ Contains(kw, r[3]) \/ Contains(kw, <<"T">>)})}})

\* query_graph_by_keywords: nothing without a graph backend
RECURSIVE query_graph_by_keywords(_, _, _, _)
query_graph_by_keywords(g, rels, keywords, i) ==
    IF g = "None" \/ i > Len(keywords) THEN <<>>
    ELSE graph_rows(rels, keywords[i]) \o query_graph_by_keywords(g, rels, keywords, i + 1)

\* a query per entity, each with the one entity as its keyword
RECURSIVE graph_search_from(_, _, _, _)
graph_search_from(g, rels, entities, i) ==
    IF i > Len(entities) THEN <<>>
    ELSE query_graph_by_keywords(g, rels, <<entities[i]>>, 1)
         \o graph_search_from(g, rels, entities, i + 1)

_graph_search(g, rels, query, options) ==
    IF query_entities(query) = {} THEN <<>>
    ELSE TheOne({results_from(quintuples, 1,
                              [k \in 1 .. Len(quintuples) |->
                                  _calculate_graph_relevance(quintuples[k], query_entities(query))],
                              options.min_relevance, "graph") :
                 quintuples \in {graph_search_from(g, rels, AnyOrder(query_entities(query)), 1)}})

\* the importance threshold of the fuzzy query is min_relevance * 0.8
RECURSIVE fuzzy_search_from(_, _, _, _, _, _)
fuzzy_search_from(master, query, fuzzy_patterns, i, options, now) ==
    IF i > Len(fuzzy_patterns) THEN <<>>
    ELSE TheOne({results_from(quintuples, 1,
                              [k \in 1 .. Len(quintuples) |->
                                  _calculate_fuzzy_relevance(quintuples[k], query)],
                              options.fuzzy_threshold, "fuzzy") :
                 quintuples \in {query_quintuples_by_keywords(master, <<fuzzy_patterns[i]>>,
                                     options.memory_types, (options.min_relevance * 8) \div 10,
                                     options.time_window, now)}})
         \o fuzzy_search_from(master, query, fuzzy_patterns, i + 1, options, now)

_fuzzy_search(master, query, keywords, options, now) ==
    fuzzy_search_from(master, query, _generate_fuzzy_patterns(keywords), 1, options, now)

ResultKey(result) ==
    <<result.quintuple.subject, result.quintuple.predicate, result.quintuple.object>>

\* _deduplicate_search_results: the first result of a key stays in its place
\* and a later one with a higher score replaces it there
RECURSIVE unique_results_from(_, _, _)
unique_results_from(results, i, unique_results) ==
    IF i > Len(results) THEN unique_results
    ELSE unique_results_from(results, i + 1,
             IF \A k \in 1 .. Len(unique_results) :
                    ResultKey(unique_results[k]) # ResultKey(results[i])
             THEN Append(unique_results, results[i])
             ELSE [k \in 1 .. Len(unique_results) |->
                      IF /\ ResultKey(unique_results[k]) = ResultKey(results[i])
                         /\ results[i].relevance_score > unique_results[k].relevance_score
                      THEN results[i]
                      ELSE unique_results[k]])

_deduplicate_search_results(results) == unique_results_from(results, 1, <<>>)

_hybrid_search(master, query, expanded_terms, options, now) ==
    _deduplicate_search_results(_keyword_search(master, query, options, now)
                                \o _semantic_search(master, query, expanded_terms, options, now))

_search_by_mode(master, g, rels, query, keywords, expanded_terms, mode, options, now) ==
    CASE mode = "keyword" -> _keyword_search(master, query, options, now)
      [] mode = "semantic" -> _semantic_search(master, query, expanded_terms, options, now)
      [] mode = "graph" -> _graph_search(g, rels, query, options)
      [] mode = "fuzzy" -> _fuzzy_search(master, query, keywords, options, now)
      [] mode = "hybrid" -> _hybrid_search(master, query, expanded_terms, options, now)
      [] OTHER -> <<>>

_merge_and_rank_results(results, options) ==
    TheOne({[i \in 1 .. (IF options.max_results # 0 /\ options.max_results < Len(sorted_results)
                         THEN options.max_results ELSE Len(sorted_results)) |->
                [sorted_results[i] EXCEPT !.rank = i]] :
            sorted_results \in
                {TheOne({Items(SortPairsDesc([i \in 1 .. Len(unique_results) |->
                                                 <<unique_results[i],
                                                   unique_results[i].relevance_score>>])) :
                         unique_results \in {_deduplicate_search_results(results)}})}})

RECURSIVE all_results_from(_, _, _, _, _, _, _, _, _)
all_results_from(master, g, rels, query, keywords, expanded_terms, i, options, now) ==
    IF i > Len(options.search_modes) THEN <<>>
    ELSE _search_by_mode(master, g, rels, query, keywords, expanded_terms,
                         options.search_modes[i], options, now)
         \o all_results_from(master, g, rels, query, keywords, expanded_terms, i + 1, options,
                             now)

\* search as a function of the state; keywords and expanded_terms are the
\* orders list(set(...)) gives the keywords and the expanded terms
search(system, master, g, rels, query, keywords, expanded_terms, options, now) ==
    TheOne({[system |-> [search_history |->
                             Append(system.search_history,
                                    [timestamp |-> now, query |-> query, options |-> options,
                                     results_count |-> Len(final_results)]),
                         performance_stats |-> Append(system.performance_stats, "search_time")],
             ret |-> final_results] :
            final_results \in
                {_merge_and_rank_results(
                     all_results_from(master, g, rels, query, keywords, expanded_terms, 1, options,
                                      now),
                     options)}})

----------------------------------------------------------------------------
(* The search specification: store_quintuples calls, then searches of what *)
(* they stored.                                                            *)

MaxSearchStores == 1
MaxSearches == 1

SearchQueries ==
    {<<"a", "c">>, <<"o", "b">>, <<"a", "c", " ", "o", "b">>, <<"A", "b", " ", "p">>}

SearchModeLists ==
    {<<"keyword", "semantic">>, <<"keyword">>, <<"hybrid">>, <<"fuzzy">>, <<"graph">>}

Search ==
    /\ Len(multi_modal_query_system.search_history) < MaxSearches
    /\ \E query \in SearchQueries, search_modes \in SearchModeLists, scope \in QueryScope,
          max_results \in {1, 10}, min_relevance \in {0, 5} :
         \E keywords \in Orderings(query_keywords(query)),
            expanded_terms \in Orderings(_semantic_expansion(query)) :
             \E r \in {search(multi_modal_query_system, quintuples_file, graph, graph_rels, query,
                              keywords, expanded_terms,
                              QueryOptions(search_modes, scope, max_results, min_relevance,
                                           {}, {}),
                              clock)} :
                 /\ multi_modal_query_system' = r.system
                 /\ last' = [op |-> "search", query |-> query, scope |-> scope,
                             search_modes |-> search_modes, ret |-> r.ret]
    /\ UNCHANGED <<clock, files, memory_indices, quintuples_file, graph, graph_rels,
                   inputs, thr, manager, task_manager, loop_calls, memory_decision_maker,
                   extractor, entity_disambiguator, nops>>

NextSearch ==
    \/ /\ nops < MaxSearchStores
       /\ multi_modal_query_system.search_history = <<>>
       /\ StoreQuintuples
    \/ Search

SpecSearch == InitRetrieve /\ [][NextSearch]_vars

----------------------------------------------------------------------------
(* entity_disambiguator: EntityDisambiguator.  The entity table is the     *)
(* sequence of the entities in insertion order (a dict), an index a        *)
(* function from its keys to sets of entity ids.  Similarities are in      *)
(* units of 1 / SimilarityScale, confidences in tenths.                    *)

SimilarityScale == 6000

EntityAttributes(name, entity_type, description, context, confidence, now) ==
    [name |-> name, entity_type |-> entity_type, description |-> description,
     aliases |-> <<>>, context |-> context, first_seen |-> now, last_seen |-> now,
     frequency |-> 0, confidence |-> confidence]

EntityIdentity(entity_id, canonical_name, attributes) ==
    [entity_id |-> entity_id, canonical_name |-> canonical_name, attributes |-> attributes,
     related_entities |-> {}]

EntityIds(entities) == {entities[i].entity_id : i \in 1 .. Len(entities)}

EntityAt(entities, entity_id) ==
    entities[CHOOSE i \in 1 .. Len(entities) : entities[i].entity_id = entity_id]

\* index[key].add(entity_id) on a defaultdict(set)
IndexAdd(index, key, entity_id) ==
    IF key \in DOMAIN index
    THEN [index EXCEPT ![key] = @ \cup {entity_id}]
    ELSE [k \in DOMAIN index \cup {key} |-> IF k = key THEN {entity_id} ELSE index[k]]

\* re.findall(r'\w+', text.lower())
ContextWords(text) ==
    Range(Split([i \in 1 .. Len(text) |->
                    IF IsWordChar(text[i]) THEN LowerChar(text[i]) ELSE " "]))

RECURSIVE IndexAddAll(_, _, _)
IndexAddAll(index, keys, entity_id) ==
    IF keys = {} THEN index
    ELSE TheOne({IndexAddAll(IndexAdd(index, key, entity_id), keys \ {key}, entity_id) :
                 key \in {CHOOSE k \in keys : TRUE}})

\* _save_entities: entities.json holds the table
_save_entities(d) == [d EXCEPT !.entities_file = d.entities]

\* _index_entity
_index_entity(d, entity) ==
    [d EXCEPT
        !.name_index = IndexAdd(@, Lower(entity.canonical_name), entity.entity_id),
        !.alias_index = IndexAddAll(@, {Lower(a) : a \in Range(entity.attributes.aliases)},
                                    entity.entity_id),
        !.context_index =
            IndexAddAll(@, {w \in UNION {ContextWords(c) : c \in Range(entity.attributes.context)} :
                               Len(w) > 2},
                        entity.entity_id)]

\* _generate_entity_id: the digest of name|entity_type|context, as the triple
_generate_entity_id(name, entity_type, context) == <<name, entity_type, context>>

_calculate_similarity(name1, name2, type1, type2, context1, context2) ==
    TheOne({IF score < SimilarityScale THEN score ELSE SimilarityScale :
            score \in
                {(IF Lower(name1) = Lower(name2) THEN 3000
                  ELSE IF Contains(Lower(name1), Lower(name2)) \/ Contains(Lower(name2), Lower(name1))
                  THEN 1800 ELSE 0)
                 + (IF type1 = type2 THEN 1800 ELSE 0)
                 + (IF /\ context1 # <<>> /\ context2 # <<>>
                       /\ ContextWords(context1) # {} /\ ContextWords(context2) # {}
                    THEN (1200 * Cardinality(ContextWords(context1) \cap ContextWords(context2)))
                         \div Cardinality(ContextWords(context1) \cup ContextWords(context2))
                    ELSE 0)}})

\* " ".join(contexts)
RECURSIVE JoinSpaces(_)
JoinSpaces(contexts) ==
    IF contexts = <<>> THEN <<>>
    ELSE IF Len(contexts) = 1 THEN contexts[1]
    ELSE contexts[1] \o <<" ">> \o JoinSpaces(Tail(contexts))

\* the ids _find_candidate_entities looks up in the table: those of the name
\* and those of the indexed words of the context
LookedUp(d, name, context) ==
    (IF Lower(name) \in DOMAIN d.name_index THEN d.name_index[Lower(name)] ELSE {})
    \cup UNION {d.context_index[w] :
                   w \in {w \in ContextWords(context) : Len(w) > 2 /\ w \in DOMAIN d.context_index}}

SimilarityTo(d, entity_id, name, entity_type, context) ==
    TheOne({_calculate_similarity(name, entity.canonical_name, entity_type,
                                  entity.attributes.entity_type, context,
                                  JoinSpaces(entity.attributes.context)) :
            entity \in {EntityAt(d.entities, entity_id)}})

\* _find_candidate_entities, as the set of <<entity id, similarity>>: every
\* entity of the name, and of the context words those with similarity >= 0.3
_find_candidate_entities(d, name, entity_type, context) ==
    {c \in {<<id, SimilarityTo(d, id, name, entity_type, context)>> :
               id \in LookedUp(d, name, context)} :
        \/ Lower(name) \in DOMAIN d.name_index /\ c[1] \in d.name_index[Lower(name)]
        \/ 10 * c[2] >= 3 * SimilarityScale}

ReplaceEntity(entities, entity) ==
    [i \in 1 .. Len(entities) |->
        IF entities[i].entity_id = entity.entity_id THEN entity ELSE entities[i]]

\* self.entities[entity_id] = entity
PutEntity(entities, entity) ==
    IF entity.entity_id \in EntityIds(entities) THEN ReplaceEntity(entities, entity)
    ELSE Append(entities, entity)

_create_entity(d, name, entity_type, context, description, confidence, now) ==
    TheOne({[d |-> _save_entities(_index_entity([d EXCEPT !.entities = PutEntity(@, entity)],
                                                entity)),
             ret |-> entity.entity_id] :
            entity \in {EntityIdentity(_generate_entity_id(name, entity_type, context), name,
                                       EntityAttributes(name, entity_type, description,
                                                        IF context # <<>> THEN <<context>>
                                                        ELSE <<>>,
                                                        confidence, now))}})

_update_entity(d, entity, context, description, confidence, now) ==
    _save_entities(
        [d EXCEPT
            !.entities =
                ReplaceEntity(@,
                    [entity EXCEPT
                        !.attributes.context =
                            IF context # <<>> /\ context \notin Range(@)
                            THEN Append(@, context) ELSE @,
                        !.attributes.description =
                            IF description # <<>> /\ description # @ THEN description ELSE @,
                        !.attributes.frequency = @ + 1,
                        !.attributes.last_seen = now,
                        !.attributes.confidence = IF confidence > @ THEN confidence ELSE @]),
            !.name_index = IndexAdd(@, Lower(entity.canonical_name), entity.entity_id)])

\* disambiguate_entity with best_candidate the candidate max(...) returns; a
\* looked-up id that is not in the table is a KeyError
disambiguate_entity(d, name, entity_type, context, description, confidence, best_candidate, now) ==
    IF ~(LookedUp(d, name, context) \subseteq EntityIds(d.entities))
    THEN [d |-> d, raised |-> TRUE, ret |-> <<>>]
    ELSE IF best_candidate # <<>> /\ 10 * best_candidate[2] >= 7 * SimilarityScale
    THEN [d |-> _update_entity(d, EntityAt(d.entities, best_candidate[1]), context,
                               description, confidence, now),
          raised |-> FALSE, ret |-> best_candidate[1]]
    ELSE _create_entity(d, name, entity_type, context, description, confidence, now)
         @@ [raised |-> FALSE]

\* the candidates max(candidates, key=...) can return: the first of the
\* highest similarity, in the order the sets of the indexes are iterated
BestCandidates(d, name, entity_type, context) ==
    IF ~(LookedUp(d, name, context) \subseteq EntityIds(d.entities)) THEN {<<>>}
    ELSE TheOne({IF candidates = {} THEN {<<>>}
                 ELSE {c \in candidates : \A o \in candidates : o[2] <= c[2]} :
                 candidates \in {_find_candidate_entities(d, name, entity_type, context)}})

add_alias(d, entity_id, alias) ==
    IF entity_id \in EntityIds(d.entities)
       /\ alias \notin Range(EntityAt(d.entities, entity_id).attributes.aliases)
    THEN _save_entities(
             [d EXCEPT
                 !.entities = ReplaceEntity(@, [EntityAt(@, entity_id) EXCEPT
                                                   !.attributes.aliases = Append(@, alias)]),
                 !.alias_index = IndexAdd(@, Lower(alias), entity_id)])
    ELSE d

\* find_entities_by_name: entity_ids is the set object of the name index
\* when the name is a key of it, and update() adds the ids of the alias to
\* that object
find_entities_by_name(d, name) ==
    TheOne({[d |-> IF Lower(name) \in DOMAIN d.name_index
                   THEN [d EXCEPT !.name_index[Lower(name)] = entity_ids]
                   ELSE d,
             ret |-> entity_ids \cap EntityIds(d.entities)] :
            entity_ids \in
                {(IF Lower(name) \in DOMAIN d.name_index THEN d.name_index[Lower(name)] ELSE {})
                 \cup (IF Lower(name) \in DOMAIN d.alias_index
                       THEN d.alias_index[Lower(name)] ELSE {})}})

find_entities_by_context(d, context) ==
    [d |-> d,
     ret |-> UNION {d.context_index[w] :
                       w \in {w \in ContextWords(context) :
                                 Len(w) > 2 /\ w \in DOMAIN d.context_index}}
             \cap EntityIds(d.entities)]

\* cleanup_entities: the first entity to remove is deleted from the table
\* and then looked up in it, a KeyError
cleanup_entities(d, min_frequency, min_confidence) ==
    TheOne({IF entities_to_remove = <<>>
            THEN [d |-> d, raised |-> FALSE, ret |-> 0]
            ELSE [d |-> [d EXCEPT !.entities =
                            SelectSeq(@, LAMBDA e : e.entity_id # entities_to_remove[1])],
                  raised |-> TRUE, ret |-> 0] :
            entities_to_remove \in
                {[i \in 1 .. Len(low) |-> low[i].entity_id] :
                    low \in {SelectSeq(d.entities,
                                       LAMBDA e : \/ e.attributes.frequency < min_frequency
                                                  \/ e.attributes.confidence < min_confidence)}}})

----------------------------------------------------------------------------
(* The entity specification: calls of the disambiguator's methods.         *)

MaxEntityOps == 4

EntityNames == {<<"a", "b">>, <<"c", "d">>}
EntityTypes == {<<"T">>, <<"U">>}
EntityContexts == {<<>>, <<"x", "a", "b">>}
Confidences == {2, 5}

EntityUnchanged ==
    UNCHANGED <<clock, files, memory_indices, quintuples_file, graph, graph_rels, inputs, thr,
                manager, task_manager, loop_calls, memory_decision_maker, extractor,
                multi_modal_query_system>>

DisambiguateEntity ==
    /\ nops < MaxEntityOps
    /\ nops' = nops + 1
    /\ \E name \in EntityNames, entity_type \in EntityTypes, context \in EntityContexts,
          confidence \in Confidences :
         \E best_candidate \in BestCandidates(entity_disambiguator, name, entity_type, context) :
             \E r \in {disambiguate_entity(entity_disambiguator, name, entity_type, context,
                                           <<>>, confidence, best_candidate, clock)} :
                 /\ entity_disambiguator' = r.d
                 /\ last' = [op |-> "disambiguate_entity", name |-> name,
                             before |-> entity_disambiguator, raised |-> r.raised,
                             ret |-> r.ret]
    /\ EntityUnchanged

AddAlias ==
    /\ nops < MaxEntityOps
    /\ nops' = nops + 1
    /\ \E entity_id \in EntityIds(entity_disambiguator.entities), alias \in EntityNames :
         /\ entity_disambiguator' = add_alias(entity_disambiguator, entity_id, alias)
         /\ last' = [op |-> "add_alias", name |-> alias, before |-> entity_disambiguator,
                     raised |-> FALSE, ret |-> <<>>]
    /\ EntityUnchanged

FindEntitiesByName ==
    /\ nops < MaxEntityOps
    /\ nops' = nops + 1
    /\ \E name \in EntityNames :
         \E r \in {find_entities_by_name(entity_disambiguator, name)} :
             /\ entity_disambiguator' = r.d
             /\ last' = [op |-> "find_entities_by_name", name |-> name,
                         before |-> entity_disambiguator, raised |-> FALSE, ret |-> r.ret]
    /\ EntityUnchanged

FindEntitiesByContext ==
    /\ nops < MaxEntityOps
    /\ nops' = nops + 1
    /\ \E context \in EntityContexts :
         \E r \in {find_entities_by_context(entity_disambiguator, context)} :
             /\ entity_disambiguator' = r.d
             /\ last' = [op |-> "find_entities_by_context", name |-> context,
                         before |-> entity_disambiguator, raised |-> FALSE, ret |-> r.ret]
    /\ EntityUnchanged

CleanupEntities ==
    /\ nops < MaxEntityOps
    /\ nops' = nops + 1
    /\ \E min_frequency \in {0, 1}, min_confidence \in {3} :
         \E r \in {cleanup_entities(entity_disambiguator, min_frequency, min_confidence)} :
             /\ entity_disambiguator' = r.d
             /\ last' = [op |-> "cleanup_entities", name |-> <<>>,
                         before |-> entity_disambiguator, raised |-> r.raised, ret |-> r.ret,
                         min_frequency |-> min_frequency, min_confidence |-> min_confidence]
    /\ EntityUnchanged

NextEntities ==
    \/ DisambiguateEntity
    \/ AddAlias
    \/ FindEntitiesByName
    \/ FindEntitiesByContext
    \/ CleanupEntities

SpecEntities == Init /\ [][NextEntities]_vars

----------------------------------------------------------------------------
(* TypedMemoryStorage.import_memories, and the specification of the typed  *)
(* storage with it.                                                        *)

\* the body of the loop of import_memories for one entry of the file; the
\* index of the type is not touched
import_type(fs, memory_type, memories, merge_strategy, now) ==
    IF merge_strategy = "merge"
    THEN [fs EXCEPT ![memory_type] =
             _save_memories(memory_type,
                            fs[memory_type]
                            \o SelectSeq(memories,
                                         LAMBDA m : \A i \in 1 .. Len(fs[memory_type]) :
                                                        _get_memory_key(fs[memory_type][i])
                                                        # _get_memory_key(m)),
                            now)]
    ELSE IF merge_strategy = "replace"
    THEN [fs EXCEPT ![memory_type] = _save_memories(memory_type, memories, now)]
    ELSE fs

\* import_memories of a file with the entries of imported_data, a sequence
\* of <<memory type, memories>> in the order of the file
RECURSIVE import_from(_, _, _, _, _)
import_from(fs, imported_data, i, merge_strategy, now) ==
    IF i > Len(imported_data) THEN fs
    ELSE import_from(IF imported_data[i][1] \in MemoryType
                     THEN import_type(fs, imported_data[i][1], imported_data[i][2],
                                      merge_strategy, now)
                     ELSE fs,
                     imported_data, i + 1, merge_strategy, now)

import_memories(fs, imported_data, merge_strategy, now) ==
    [files |-> import_from(fs, imported_data, 1, merge_strategy, now), ret |-> TRUE]

\* the files imported: one entry, of a known type or of none
ImportedFiles(now) ==
    {<< <<t, memories>> >> :
        t \in {"process", "other"},
        memories \in {<<create_enhanced_quintuple(<<"a", "b">>, <<"o", "a">>, "process", 5, "s2", now)>>,
                      <<create_enhanced_quintuple(<<"x">>, <<"o", "a">>, "process", 9, "s2", now),
                        create_enhanced_quintuple(<<"a", "b">>, <<"o", "a">>, "process", 9, "s2", now)>>}}

ImportMemories ==
    /\ nops < MaxOps
    /\ \E imported_data \in ImportedFiles(clock), merge_strategy \in {"merge", "replace"} :
         \E r \in {import_memories(files, imported_data, merge_strategy, clock)} :
             /\ files' = r.files
             /\ last' = [op |-> "import_memories", merge_strategy |-> merge_strategy,
                         ret |-> r.ret]
    /\ nops' = nops + 1
    /\ UNCHANGED <<clock, memory_indices, quintuples_file, graph, graph_rels, inputs, thr,
                   manager, task_manager, loop_calls, memory_decision_maker, extractor,
                   multi_modal_query_system, entity_disambiguator>>

NextImport == StoreMemory \/ CleanupOldMemories \/ Tick \/ ImportMemories

SpecImport == Init /\ [][NextImport]_vars

----------------------------------------------------------------------------
(* The queries and clear_memory of GRAGMemoryManager, and the manager      *)
(* specification: every operation of the manager, for the context lengths  *)
(* of ContextLengths, with the workers and the callbacks of the tasks.     *)

\* task_manager.cancel_task: a queued task leaves the queue and is marked
\* cancelled; a task that is running or over is left as it is
cancel_task(tm, task_id) ==
    IF task_id \in 1 .. Len(tm.tasks) /\ tm.tasks[task_id].status = "queued"
    THEN [tm EXCEPT !.tasks[task_id].status = "cancelled",
                    !.task_queue = SelectSeq(@, LAMBDA id : id # task_id)]
    ELSE tm

RECURSIVE cancel_all(_, _)
cancel_all(tm, task_ids) ==
    IF task_ids = {} THEN tm
    ELSE LET task_id == CHOOSE id \in task_ids : \A other \in task_ids : id <= other
         IN cancel_all(cancel_task(tm, task_id), task_ids \ {task_id})

\* what query_knowledge can return: nothing, the text saying that nothing
\* was found in the graph, or an answer; "raise" when it raises
QueryResults == {"", "not_found", "answer", "raise"}

\* the result of query_memory and of _query_memory_by_decision, given the
\* result of query_knowledge
query_result(result) ==
    IF result \in {"", "not_found", "raise"} THEN "None" ELSE result

query_memory(mgr, result) ==
    IF ~mgr.enabled THEN "None" ELSE query_result(result)

\* query_memory_intelligent, given whether decide_memory_query says to query
query_memory_intelligent(mgr, should_query, result) ==
    IF ~mgr.enabled THEN "None"
    ELSE IF ~should_query THEN "None"
    ELSE query_result(result)

get_relevant_memories(mgr, g, rels, query, limit) ==
    IF ~mgr.enabled THEN <<>>
    ELSE LET quintuples == query_graph_by_keywords(g, rels, <<query>>, 1)
         IN SubSeq(quintuples, 1, IF limit < Len(quintuples) THEN limit ELSE Len(quintuples))

\* clear_memory that does not look at enabled
clear_memory_unguarded(mgr, tm) ==
    [manager |-> [mgr EXCEPT !.recent_context = <<>>, !.extraction_cache = {},
                             !.active_tasks = {}],
     tm |-> cancel_all(tm, mgr.active_tasks), ret |-> TRUE]

clear_memory(mgr, tm) ==
    IF ~mgr.enabled THEN [manager |-> mgr, tm |-> tm, ret |-> FALSE]
    ELSE [manager |-> [mgr EXCEPT !.recent_context = <<>>, !.extraction_cache = {},
                                  !.active_tasks = {}],
          tm |-> cancel_all(tm, mgr.active_tasks), ret |-> TRUE]

ContextLengths == {0, 1, context_length}

InitManager ==
    /\ clock = 0
    /\ files = [t \in MemoryType |-> <<>>]
    /\ memory_indices = [t \in MemoryType |-> EmptyIndex]
    /\ quintuples_file = <<>>
    /\ graph = "None"
    /\ graph_rels = {}
    /\ last = [op |-> "init"]
    /\ inputs = {}
    /\ thr = [th \in Threads |-> IdleThread]
    /\ \E enabled \in BOOLEAN, auto_extract \in BOOLEAN, length \in ContextLengths :
           manager = [NewManager(enabled, auto_extract) EXCEPT !.context_length = length]
    /\ task_manager = NewTaskManager
    /\ loop_calls = <<>>
    /\ extractor = NewExtractor
    /\ memory_decision_maker = [enabled |-> TRUE]
    /\ multi_modal_query_system = NewQuerySystem
    /\ entity_disambiguator = NewDisambiguator
    /\ nops = 0

\* the frame of an operation of the manager that only reads
QueryFrame ==
    UNCHANGED <<clock, files, memory_indices, quintuples_file, graph, graph_rels, inputs,
                thr, manager, task_manager, loop_calls, memory_decision_maker, extractor,
                multi_modal_query_system, entity_disambiguator>>

QueryMemory ==
    /\ nops < MaxTasks
    /\ nops' = nops + 1
    /\ \E result \in QueryResults :
         last' = [op |-> "query_memory", ret |-> query_memory(manager, result)]
    /\ QueryFrame

QueryMemoryIntelligent ==
    /\ nops < MaxTasks
    /\ nops' = nops + 1
    /\ \E should_query \in BOOLEAN, result \in QueryResults :
         last' = [op |-> "query_memory_intelligent",
                  ret |-> query_memory_intelligent(manager, should_query, result)]
    /\ QueryFrame

GetRelevantMemories ==
    /\ nops < MaxTasks
    /\ nops' = nops + 1
    /\ \E query \in StoreSubjects :
         last' = [op |-> "get_relevant_memories",
                  ret |-> get_relevant_memories(manager, graph, graph_rels, query, 3)]
    /\ QueryFrame

ClearMemory ==
    /\ nops < MaxTasks
    /\ nops' = nops + 1
    /\ \E r \in {clear_memory(manager, task_manager)} :
         /\ manager' = r.manager
         /\ task_manager' = r.tm
         /\ last' = [op |-> "clear_memory", ret |-> r.ret]
    /\ UNCHANGED <<clock, files, memory_indices, quintuples_file, graph, graph_rels, inputs,
                   thr, loop_calls, memory_decision_maker, extractor,
                   multi_modal_query_system, entity_disambiguator>>

NextManager ==
    \/ AddConversationMemory
    \/ StoreMemoryIntelligent
    \/ QueryMemory
    \/ QueryMemoryIntelligent
    \/ GetRelevantMemories
    \/ ClearMemory
    \/ \E w \in Workers : WorkerTake(w)
    \/ \E w \in Workers : WorkerComplete(w)
    \/ \E w \in Workers : WorkerFail(w)
    \/ RunCallback

SpecManager == InitManager /\ [][NextManager]_vars

----------------------------------------------------------------------------
(* Properties of the typed storage.                                        *)

RecordKey5(m) == <<m.subject, m.subject_type, m.predicate, m.object, m.object_type>>
RecordKey3(m) == <<m.subject, m.predicate, m.object>>
Positions(t) == 1 .. Len(files[t])
Age(m) == clock - m.timestamp
Expired(t, m) == Age(m) > retention_days(t) * DaySeconds
Count(seq, r) == Cardinality({i \in 1 .. Len(seq) : seq[i] = r})

\* C1: no type-file contains two records with the identical (subject,
\* subject_type, predicate, object, object_type) key, after any sequence of
\* store_memory and cleanup_old_memories calls with the clock advancing.
C1_NoDuplicateKey ==
    \A t \in MemoryType : \A i, j \in Positions(t) :
        i # j => RecordKey5(files[t][i]) # RecordKey5(files[t][j])

\* C8: every type-file holds at most max_size records, and when a
\* store_memory call dropped records for size, the kept records are max_size
\* records of those that passed retention and none of the dropped ones has a
\* higher importance_score than a kept one.
C8_Retained == _apply_retention_policy(last.handed, retention_days(last.q.memory_type), clock)
C8_Truncated ==
    /\ last.op = "store_memory"
    /\ last.ret
    /\ Len(C8_Retained) > max_size(last.q.memory_type)
RECURSIVE SumRemoved(_, _, _)
SumRemoved(i, before, after) ==
    IF i > Len(TypeOrder) THEN 0
    ELSE (Len(before[TypeOrder[i]]) - Len(after[TypeOrder[i]]))
         + SumRemoved(i + 1, before, after)
C9_CleanupRetention ==
    [][(nops' = nops + 1 /\ last'.op = "cleanup_old_memories") =>
          /\ \A t \in MemoryType : \A i \in 1 .. Len(files'[t]) :
                clock' - files'[t][i].timestamp <= retention_days(t) * DaySeconds
          /\ last'.ret = SumRemoved(1, files, files')]_vars
\* Witness of C9: a cleanup that removed a 100-day-old process record and
\* kept a 100-day-old fact record.
C9_Witness ==
    /\ last.op = "cleanup_old_memories"
    /\ last.ret > 0
    /\ files["process"] = <<>>
    /\ \E i \in Positions("fact") : Age(files["fact"][i]) = 100 * DaySeconds

\* C10: no (subject, predicate, object) fact is present in more than one of
\* the four type-files at the same time.
C10_TypeExclusive ==
    \A t1, t2 \in MemoryType : t1 # t2 =>
        {RecordKey3(m) : m \in Range(files[t1])} \cap
        {RecordKey3(m) : m \in Range(files[t2])} = {}

----------------------------------------------------------------------------
(* Properties of store_quintuples.                                         *)

StoredRecords == Range(quintuples_file) \cup Range(files["fact"])
SameKeyInputs(r) == {q \in inputs : RecordKey5(q) = RecordKey5(r)}
SessionsOf(r) == r.session_ids \cup {r.session_id}

\* C2: after any sequence of store_quintuples calls, a stored record (in the
\* master list or in its type-file) has an importance_score equal to the
\* maximum importance of the inputs with its key, and its sessions contain
\* the session id of every input with its key.
C2_MergeKeepsMaxAndSessions ==
    \A r \in StoredRecords :
        \A q \in SameKeyInputs(r) :
            /\ r.importance_score >= q.importance_score
            /\ q.session_id \in SessionsOf(r)

\* C3: a store_quintuples call whose file writes succeed returns True,
\* whether the graph backend is absent or its merge calls raise.
C3_GraphFailureDegrades ==
    (last.op = "store_quintuples" /\ last.storage_success) => last.ret

----------------------------------------------------------------------------
(* Properties of concurrent stores.                                        *)

AllDone == \A th \in Threads : thr[th].pc = "done"
InTypeFile(q) == \E i \in Positions(q.memory_type) :
                     RecordKey3(files[q.memory_type][i]) = RecordKey3(q)
InMasterList(q) == \E i \in 1 .. Len(quintuples_file) :
                       RecordKey3(quintuples_file[i]) = RecordKey3(q)

\* C4: when two store_quintuples runs interleave and both have finished,
\* every quintuple of both batches is present in its type-file and in the
\* master list.
C4_NoLostUpdate ==
    AllDone => \A th \in Threads : \A k \in 1 .. Len(thr[th].batch) :
                   InTypeFile(thr[th].batch[k]) /\ InMasterList(thr[th].batch[k])

\* C7: no quintuple of a batch is written to a type-file or to the master
\* list before deduplication has been applied to that batch.
C7_DedupBeforeStore ==
    \A th \in Threads : thr[th].written > 0 => thr[th].deduplicated

----------------------------------------------------------------------------
(* Properties of the task bookkeeping.                                     *)

TaskIds == 1 .. Len(task_manager.tasks)
Ended(id) == task_manager.tasks[id].status \in {"completed", "failed"}
CallbackPending(id) == \E i \in 1 .. Len(loop_calls) : loop_calls[i].task_id = id
RunningWorkers == {w \in Workers : task_manager.workers[w] # 0}

\* C5: a task id added to active_tasks is removed from it when the task
\* ends, by the completion callback or by the failure callback: once the
\* task has ended and no callback for it remains to run, its id is not in
\* active_tasks.
C5_ActiveTasksBookkeeping ==
    \A id \in TaskIds :
        (Ended(id) /\ ~CallbackPending(id)) => id \notin manager.active_tasks

----------------------------------------------------------------------------
(* Properties of the deduplicator.                                         *)

\* C11: deduplicate_quintuples applied to its own result returns that
\* result, and likewise smart_deduplicate.
C11_DedupIdempotent ==
    last.op \in {"deduplicate_quintuples", "smart_deduplicate"} => last.twice = last.once

----------------------------------------------------------------------------
(* Properties of the master list.                                          *)

\* the records of the sequence seq, other than the one at position i, that
\* are similar to it
SimilarOthers(seq, i) ==
    {j \in 1 .. Len(seq) : j # i /\ are_semantically_similar(seq[i], seq[j])}

\* C12: after every store_quintuples call the master list holds no two
\* records with the same (subject, predicate, object) key, and every record
\* that was in the list before the call and is similar to no other record
\* (of the list or of the batch) is still in it.
C12_MasterListDedup ==
    last.op = "store_quintuples" =>
        /\ \A i, j \in 1 .. Len(quintuples_file) :
               i # j => RecordKey3(quintuples_file[i]) # RecordKey3(quintuples_file[j])
        /\ \A i \in 1 .. Len(last.before) :
               SimilarOthers(last.before \o last.batch, i) = {}
                   => last.before[i] \in Range(quintuples_file)

----------------------------------------------------------------------------
(* Properties of the time axis.                                            *)

\* the quintuples of the list whose stored timestamp passes the three bounds
WithinBounds(quintuples, time_window, start_time, end_time) ==
    SelectSeq(quintuples,
              LAMBDA q :
                  /\ \A w \in time_window : clock - q.timestamp <= w
                  /\ \A t \in start_time : q.timestamp >= t
                  /\ \A t \in end_time : q.timestamp <= t)

\* C19: on quintuples built by create_enhanced_quintuple,
\* filter_by_time_window and get_recent_quintuples return exactly the
\* quintuples whose stored timestamp is within time_window seconds of now,
\* at or after start_time and at or before end_time.
C19_TimeWindowFilter ==
    last.op \in {"filter_by_time_window", "get_recent_quintuples"} =>
        last.ret = WithinBounds(last.quintuples, last.time_window,
                                last.start_time, last.end_time)

\* C20: the decay factor of every timestamp, past, present or future, lies
\* in [0.1, 1.0], and the decayed importance of every quintuple lies between
\* 0 and its importance_score.
C20_DecayBounds ==
    /\ last.op = "calculate_time_decay_factor" => (100 <= last.ret /\ last.ret <= 1000)
    /\ last.op = "apply_time_decay" =>
           (0 <= last.ret /\ last.ret <= 1000 * last.quintuple.importance_score)

----------------------------------------------------------------------------
(* Properties of the keyword query.                                        *)

\* C13: after a store_quintuples that returned True, the file-based query
\* for the subject of any quintuple of the batch returns a record with that
\* quintuple's subject, predicate and object.
C13_StoreThenQuery ==
    (last.op = "store_quintuples" /\ last.ret) =>
        \A i \in 1 .. Len(last.batch) :
            \E r \in Range(query_quintuples_by_keywords(quintuples_file,
                                                        <<last.batch[i].subject>>,
                                                        {}, 0, {}, clock)) :
                RecordKey3(r) = RecordKey3(last.batch[i])

----------------------------------------------------------------------------
(* Properties of the extractor.                                            *)

\* C14: an extraction in which every oracle call raised has made two
\* structured attempts and three fallback attempts when it returns, and it
\* returns the empty list.
C14_RetrySchedule ==
    \A th \in Threads :
        (thr[th].pc = "extract_returned" /\ thr[th].all_raised) =>
            /\ thr[th].structured_calls = structured_max_retries + 1
            /\ thr[th].fallback_calls = fallback_max_retries + 1
            /\ thr[th].ret = <<>>

----------------------------------------------------------------------------
(* Properties of the decision maker.                                       *)

DecisionClass(op) ==
    IF op = "decide_memory_query" THEN "MemoryQueryDecision" ELSE "MemoryGenerationDecision"

Deciding(th) == thr[th].pc \in {"structured", "fallback", "decide_returned", "decide_raised"}

\* C15: a decision call never ends with an exception; it makes at most one
\* structured and three fallback calls, so it terminates; what it returns
\* is a decision object of the call's class; and when the structured call
\* and all three fallback calls failed, the returned decision is the
\* rule-based default.
C15_AlwaysDecides ==
    \A th \in Threads :
        Deciding(th) =>
            /\ thr[th].pc # "decide_raised"
            /\ thr[th].structured_calls <= 1
            /\ thr[th].fallback_calls <= decision_fallback_max_retries + 1
            /\ thr[th].pc = "fallback" => thr[th].attempt = thr[th].fallback_calls
            /\ thr[th].pc = "decide_returned" =>
                   /\ thr[th].ret.class = DecisionClass(thr[th].op)
                   /\ thr[th].failures = decision_fallback_max_retries + 2 =>
                          thr[th].ret \in {default_query_decision(thr[th].user_question),
                                           default_generation_decision(thr[th].user_question,
                                                                       thr[th].ai_response)}

\* a call returned the default decision after four failed oracle calls, one
\* of them a schema-invalid answer's
C15_Witness ==
    \E th \in Threads :
        /\ thr[th].pc = "decide_returned"
        /\ thr[th].failures = decision_fallback_max_retries + 2
        /\ thr[th].ret = default_generation_decision(thr[th].user_question, thr[th].ai_response)
        /\ thr[th].ret.should_store

----------------------------------------------------------------------------
(* Properties of the lazy start.                                           *)

\* C16: a task is only ever in a task manager that is running, and a
\* submission made when the task manager was not running started it before
\* the task was added.
C16_StartBeforeSubmit ==
    /\ task_manager.tasks # <<>> => task_manager.is_running
    /\ (last.op \in {"add_conversation_memory", "store_memory_intelligent"}
        /\ "task_id" \in DOMAIN last) =>
           /\ task_manager.is_running
           /\ last.task_id \in TaskIds

\* store_memory_intelligent has submitted the first task to a task manager
\* it had to start
C16_Witness ==
    /\ last.op = "store_memory_intelligent"
    /\ "task_id" \in DOMAIN last
    /\ last.started
    /\ last.task_id = 1
    /\ task_manager.is_running

----------------------------------------------------------------------------
(* Properties of the query analysis.                                       *)

\* the lookup of the specification
StrategyLookup(query_type, keyword_count, has_time_constraint) ==
    CASE query_type = "temporal" -> "time_based"
      [] query_type \in {"emotional", "procedural"} -> "type_based"
      [] OTHER -> IF has_time_constraint THEN "hybrid"
                  ELSE IF keyword_count <= 2 THEN "semantic_search"
                  ELSE "keyword_based"

\* C17: the strategy returned is the one of the fixed lookup, for every
\* query type, keyword count and time constraint; an analysed question with
\* a temporal word is temporal (and time_based), one with an emotion word
\* and no temporal word is emotional (and type_based).
C17_StrategyLookup ==
    /\ last.op = "_determine_extraction_strategy" =>
           last.ret = StrategyLookup(last.query_type, Cardinality(last.keywords),
                                     last.time_constraints # {})
    /\ last.op = "analyze_query" =>
           /\ last.analysis.extraction_strategy =
                  StrategyLookup(last.analysis.query_type,
                                 Cardinality(last.analysis.keywords),
                                 last.analysis.time_constraints # {})
           /\ AnyContains(temporal_words, last.query) =>
                  /\ last.analysis.query_type = "temporal"
                  /\ last.analysis.extraction_strategy = "time_based"
           /\ (AnyContains(emotional_words, last.query)
               /\ ~AnyContains(temporal_words, last.query)) =>
                  /\ last.analysis.query_type = "emotional"
                  /\ last.analysis.extraction_strategy = "type_based"

\* a question with a temporal and an emotion word has been analysed
C17_Witness ==
    /\ last.op = "analyze_query"
    /\ AnyContains(temporal_words, last.query)
    /\ AnyContains(emotional_words, last.query)
    /\ last.analysis.query_type = "temporal"
    /\ Len(extractor.query_history) = 1

----------------------------------------------------------------------------
(* Properties of the retrieval.                                            *)

\* C18: the list extract_memories returns holds no two quintuples with the
\* same (subject, predicate, object).
C18_ResultsDeduplicated ==
    (last.op = "extract_memories" /\ ~last.raised) =>
        \A i, j \in 1 .. Len(last.quintuples) :
            i # j => RecordKey3(last.quintuples[i]) # RecordKey3(last.quintuples[j])

----------------------------------------------------------------------------
(* Properties of the multi-modal search.                                   *)

\* a keyword of the query is in the field
FieldMatches(field, query) ==
    \E k \in query_keywords(query) : Contains(k, Lower(field))

\* C21: a search with scope subject (predicate, object) returns only results
\* whose subject (predicate, object) matches the query.
C21_ScopeRestriction ==
    last.op = "search" =>
        \A i \in 1 .. Len(last.ret) :
            /\ last.scope = "subject" => FieldMatches(last.ret[i].quintuple.subject, last.query)
            /\ last.scope = "predicate" =>
                   FieldMatches(last.ret[i].quintuple.predicate, last.query)
            /\ last.scope = "object" => FieldMatches(last.ret[i].quintuple.object, last.query)

----------------------------------------------------------------------------
(* Properties of the entity disambiguator.                                 *)

LowQuality(e, min_frequency, min_confidence) ==
    \/ e.attributes.frequency < min_frequency
    \/ e.attributes.confidence < min_confidence

\* the ids of the low-quality entities of the table before the last call
Removed ==
    {e.entity_id : e \in {e \in Range(last.before.entities) :
                             LowQuality(e, last.min_frequency, last.min_confidence)}}

IndexWithout(index, ids) == [k \in DOMAIN index |-> index[k] \ ids]

\* C22: cleanup_entities terminates normally, removes exactly the entities
\* with frequency < min_frequency or confidence < min_confidence from the
\* table and from the name and alias indexes, keeps every other entity
\* unchanged and returns the number removed.
C22_CleanupEntities ==
    last.op = "cleanup_entities" =>
        /\ ~last.raised
        /\ entity_disambiguator.entities =
               SelectSeq(last.before.entities, LAMBDA e : e.entity_id \notin Removed)
        /\ entity_disambiguator.name_index = IndexWithout(last.before.name_index, Removed)
        /\ entity_disambiguator.alias_index = IndexWithout(last.before.alias_index, Removed)
        /\ last.ret = Cardinality(Removed)

\* C30: find_entities_by_name and find_entities_by_context leave the entity
\* table and the name, alias and context indexes unchanged.
C30_LookupReadOnly ==
    last.op \in {"find_entities_by_name", "find_entities_by_context"} =>
        /\ entity_disambiguator.entities = last.before.entities
        /\ entity_disambiguator.name_index = last.before.name_index
        /\ entity_disambiguator.alias_index = last.before.alias_index
        /\ entity_disambiguator.context_index = last.before.context_index

----------------------------------------------------------------------------
(* Properties of store_memory and of the index of the typed storage.       *)

\* the step is a store_memory call
StoreStep == nops' = nops + 1 /\ last'.op = "store_memory"

\* C23: a store_memory(q) call that saves hands _save_memories the records
\* of the type-file with every record of another key than q's in its place
\* and unchanged, and leaves the other type-files as they are.
C23_StoreTouchesOwnKey ==
    [][(StoreStep /\ last'.ret) =>
          /\ \A t \in MemoryType \ {last'.q.memory_type} : files'[t] = files[t]
          /\ \A i \in 1 .. Len(files[last'.q.memory_type]) :
                RecordKey3(files[last'.q.memory_type][i]) # RecordKey3(last'.q) =>
                    last'.handed[i] = files[last'.q.memory_type][i]]_vars

\* C24: for every memory type and every key of its index, the position of
\* the key exists in the type-file and the record there has the key.
C24_IndexConsistent ==
    \A t \in MemoryType : \A k \in DOMAIN memory_indices[t] :
        /\ memory_indices[t][k] + 1 \in 1 .. Len(files[t])
        /\ _get_memory_key(files[t][memory_indices[t][k] + 1]) = k

\* C25: when store_memory(q) returns True, q is in the type-file of q right
\* after the call, and when it returns False the type-files are unchanged.
C25_StoreVisible ==
    [][StoreStep =>
          /\ last'.ret => last'.q \in Range(files'[last'.q.memory_type])
          /\ ~last'.ret => files' = files]_vars

----------------------------------------------------------------------------
(* Properties of the memory manager.                                       *)

\* the step is a call of the operation op of the manager
ManagerStep(op) == nops' = nops + 1 /\ last'.op = op

\* C26: with the manager enabled and auto_extract on, add_conversation_memory
\* returns True only if add_task returned an id or the fallback that ran
\* after the failed submission returned True.
C26_TruthfulResult ==
    [][(ManagerStep("add_conversation_memory") /\ manager.enabled
        /\ manager.auto_extract /\ last'.ret) =>
          \/ "task_id" \in DOMAIN last'
          \/ "fallback" \in DOMAIN last' /\ last'.fallback.ret]_vars

\* C27: in a run of the fallback the hash of the text enters
\* extraction_cache only when its quintuples were extracted and stored with
\* success, a text whose hash is in the cache is not extracted or stored,
\* and only clear_memory takes a hash out of the cache.
C27_FallbackIdempotent ==
    [][/\ ("fallback" \in DOMAIN last' /\ nops' = nops + 1) =>
            /\ manager'.extraction_cache \subseteq
                   manager.extraction_cache \cup {text_hash(last'.fallback.text)}
            /\ text_hash(last'.fallback.text)
                   \in manager'.extraction_cache \ manager.extraction_cache =>
                   /\ last'.fallback.stored # <<>>
                   /\ last'.fallback.ret
                   /\ quintuples_file' # <<>>
            /\ text_hash(last'.fallback.text) \in manager.extraction_cache =>
                   /\ last'.fallback.cached
                   /\ last'.fallback.stored = <<>>
                   /\ UNCHANGED <<files, memory_indices, quintuples_file, graph_rels>>
       /\ manager.extraction_cache \subseteq manager'.extraction_cache
          \/ ManagerStep("clear_memory")]_vars

\* a fallback met a text whose hash was in the cache and skipped it
C27_Witness ==
    /\ "fallback" \in DOMAIN last
    /\ last.fallback.cached
    /\ last.fallback.stored = <<>>
    /\ text_hash(last.fallback.text) \in manager.extraction_cache
    /\ quintuples_file # <<>>

\* what each operation returns on a disabled manager
DisabledResult ==
    [add_conversation_memory |-> FALSE, store_memory_intelligent |-> FALSE,
     clear_memory |-> FALSE, query_memory |-> "None",
     query_memory_intelligent |-> "None", get_relevant_memories |-> <<>>]

\* C28: on a disabled manager add_conversation_memory,
\* store_memory_intelligent and clear_memory return False, query_memory and
\* query_memory_intelligent return None, get_relevant_memories returns [],
\* and the call changes neither the manager, the task manager nor a store.
C28_DisabledInert ==
    [][(~manager.enabled /\ nops' = nops + 1) =>
          /\ last'.op \in DOMAIN DisabledResult
          /\ last'.ret = DisabledResult[last'.op]
          /\ UNCHANGED <<manager, task_manager, loop_calls, files, memory_indices,
                         quintuples_file, graph_rels>>]_vars

\* clear_memory was called on a disabled manager
C28_Witness ==
    /\ ~manager.enabled
    /\ last.op = "clear_memory"
    /\ last.ret = FALSE
    /\ nops = MaxTasks

\* C29: recent_context holds at most context_length entries.
C29_BoundedContext ==
    Len(manager.recent_context) <= manager.context_length

====
